---- MODULE Spec2Model ----
(***************************************************************************)
(* Process launch, library-injection launch and zombie-child reaping of    *)
(* renderdoc/os/posix/posix_process.cpp.                                   *)
(*                                                                         *)
(* Nine specifications are given.                                          *)
(*   Spec          : RunProcess with its fork path (lines 704-775), the    *)
(*                   SIGCHLD handler ZombieWaiter, LaunchProcess,          *)
(*                   LaunchAndInjectIntoProcess and Shutdown.              *)
(*   SpecHardcoded : RunProcess exactly as the file compiles it: lines     *)
(*                   595-703 change directory, execve a fixed program in   *)
(*                   the calling process and return 0, so that the fork    *)
(*                   path below line 703 is never entered.                 *)
(*   SpecTokenizer : ParseCommandLine applied to every short command line. *)
(*   SpecEnvMod    : one EnvironmentModification applied to one value by   *)
(*                   ApplySingleEnvMod and by the switch written out in    *)
(*                   LaunchAndInjectIntoProcess.                           *)
(*   SpecEnv       : registration and application of modifications to the  *)
(*                   environment of the process, the hooked and unhooked   *)
(*                   environment blocks and the environment composed for   *)
(*                   an injected launch.                                   *)
(*   SpecPIDList   : append, remove and pop_front called on two PIDLists   *)
(*                   over a few nodes, as the unit test of the file does.  *)
(*   SpecUnsupported : InjectIntoProcess and the global hook functions,    *)
(*                   none of which is supported on this platform.          *)
(*   SpecInstall   : SetupZombieCollectionHandler and fork called from     *)
(*                   RunProcess on two threads.                            *)
(*   SpecRegister  : a few launches without output capture, each           *)
(*                   registering its child, and the handler.               *)
(***************************************************************************)
EXTENDS Integers, Sequences, FiniteSets, TLC

\* ------------------------------------------------------------------------
\* Bounds of the model
\* ------------------------------------------------------------------------
MaxLaunches == 2
MaxWrite == 2
PipeCap == 1
MaxLen == 4
MaxMods == 2
MaxEnvOps == 3
MaxNodes == 4
MaxHookCalls == 4
MaxForks == 3
MaxRegistrations == 3

\* ------------------------------------------------------------------------
\* Values
\* ------------------------------------------------------------------------
NULL == 0
ForkFailed == 0 - 1
\* enough pids and nodes for the launches of every specification
MaxPid == IF MaxRegistrations > MaxLaunches THEN MaxRegistrations ELSE MaxLaunches
Pids == 1 .. MaxPid
NodeIds == 1 .. MaxPid
Ports == {0, 1}

\* application names are character sequences
AppEmpty == <<>>
AppOnPath == <<"a">>
AppNotOnPath == <<"n">>
AppSlashMissing == <<"/", "n">>
Apps == {AppEmpty, AppOnPath, AppNotOnPath, AppSlashMissing}

\* command lines are character sequences
CmdEmpty == <<>>
CmdOneArg == <<"x">>
CmdOpenQuote == <<"'", "x">>
CmdLines == {CmdOneArg, CmdOpenQuote}

\* ------------------------------------------------------------------------
\* PIDList (intrusive singly linked list): operators over a head pointer
\* and the next-pointer map of the heap.  Each returns [head, nxt].
\* ------------------------------------------------------------------------
RECURSIVE TailFrom(_, _, _)
TailFrom(nx, n, fuel) ==
  IF fuel = 0 \/ nx[n] = NULL THEN n ELSE TailFrom(nx, nx[n], fuel - 1)

\* append that links the node behind the head instead of behind the tail
ListAppend_BehindHead(head, nx, node) ==
  IF node = NULL THEN [head |-> head, nxt |-> nx]
  ELSE IF head = NULL THEN [head |-> node, nxt |-> nx]
  ELSE [head |-> head, nxt |-> [nx EXCEPT ![head] = node]]

ListAppend(head, nx, node) ==
  IF node = NULL THEN [head |-> head, nxt |-> nx]
  ELSE IF head = NULL THEN [head |-> node, nxt |-> nx]
  ELSE LET tail == TailFrom(nx, head, Cardinality(DOMAIN nx))
       IN  [head |-> head, nxt |-> [nx EXCEPT ![tail] = node]]

RECURSIVE RemoveScan(_, _, _, _, _)
RemoveScan(nx, prev, cur, node, fuel) ==
  IF cur = NULL \/ fuel = 0 THEN nx
  ELSE IF cur = node THEN [nx EXCEPT ![prev] = nx[cur], ![node] = NULL]
  ELSE RemoveScan(nx, cur, nx[cur], node, fuel - 1)

\* remove that leaves node->next as it was
ListRemove_KeepsNext(head, nx, node) ==
  IF node = NULL THEN [head |-> head, nxt |-> nx]
  ELSE IF node = head THEN [head |-> nx[head], nxt |-> nx]
  ELSE [head |-> head,
        nxt |-> [RemoveScan(nx, head, nx[head], node, Cardinality(DOMAIN nx))
                   EXCEPT ![node] = nx[node]]]

\* remove that unlinks the node together with everything behind it
ListRemove_DropsRest(head, nx, node) ==
  IF node = NULL THEN [head |-> head, nxt |-> nx]
  ELSE IF node = head THEN [head |-> nx[head], nxt |-> [nx EXCEPT ![node] = NULL]]
  ELSE [head |-> head,
        nxt |-> [n \in DOMAIN nx |-> IF n = node \/ nx[n] = node THEN NULL ELSE nx[n]]]

ListRemove(head, nx, node) ==
  IF node = NULL THEN [head |-> head, nxt |-> nx]
  ELSE IF node = head THEN [head |-> nx[head], nxt |-> [nx EXCEPT ![node] = NULL]]
  ELSE [head |-> head,
        nxt |-> RemoveScan(nx, head, nx[head], node, Cardinality(DOMAIN nx))]

\* pop_front that leaves the head pointer on the popped node
ListPopFront_KeepsHead(head, nx) ==
  [ret |-> head, head |-> head, nxt |-> [nx EXCEPT ![head] = NULL]]

ListPopFront(head, nx) ==
  [ret |-> head, head |-> nx[head], nxt |-> [nx EXCEPT ![head] = NULL]]

\* the nodes reachable from a head pointer, in order
RECURSIVE ChainSeq(_, _, _)
ChainSeq(nx, n, fuel) ==
  IF n = NULL \/ fuel = 0 THEN <<>> ELSE <<n>> \o ChainSeq(nx, nx[n], fuel - 1)

Chain(head, nx) == ChainSeq(nx, head, Cardinality(DOMAIN nx))

ChainSet(head, nx) == {Chain(head, nx)[i] : i \in 1 .. Len(Chain(head, nx))}

\* ------------------------------------------------------------------------
\* ParseCommandLine: argv[0] is the application name; <<>> is the failure
\* result "return {}".
\* ------------------------------------------------------------------------
PushArg_OnlyNonEmpty(argv, a, haveArg) == IF a # <<>> THEN Append(argv, a) ELSE argv

\* lines 456-460 and 518-522
PushArg(argv, a, haveArg) == IF a # <<>> \/ haveArg THEN Append(argv, a) ELSE argv

IsSeparator_SpaceOnly(c) == c = " "

\* line 454
IsSeparator(c) == c = " " \/ c = "\t"

Malformed_Truncated(argv) == argv

\* lines 500 and 528: return {}
Malformed(argv) == <<>>

CopySingleQuoted_Unescapes(a, c) == IF c = "\\" THEN a ELSE Append(a, c)

\* line 487
CopySingleQuoted(a, c) == Append(a, c)

CopyEscaped_KeepsBackslash(a, c) == Append(Append(a, "\\"), c)

\* lines 493-497: the character after the backslash
CopyEscaped(a, c) == Append(a, c)

RECURSIVE ParseLoop(_, _, _, _, _, _, _)
ParseLoop(cmd, i, a, haveArg, dquot, squot, argv) ==
  IF i > Len(cmd)
  THEN IF squot \/ dquot
       THEN Malformed(PushArg(argv, a, haveArg))
       ELSE PushArg(argv, a, haveArg)
  ELSE LET c == cmd[i] IN
    IF ~dquot /\ ~squot /\ IsSeparator(c)
    THEN ParseLoop(cmd, i + 1, <<>>, FALSE, dquot, squot, PushArg(argv, a, haveArg))
    ELSE IF ~dquot /\ ~squot /\ c = "\""
    THEN ParseLoop(cmd, i + 1, a, TRUE, TRUE, squot, argv)
    ELSE IF ~dquot /\ ~squot /\ c = "'"
    THEN ParseLoop(cmd, i + 1, a, TRUE, dquot, TRUE, argv)
    ELSE IF dquot /\ c = "\""
    THEN ParseLoop(cmd, i + 1, a, haveArg, FALSE, squot, argv)
    ELSE IF squot /\ c = "'"
    THEN ParseLoop(cmd, i + 1, a, haveArg, dquot, FALSE, argv)
    ELSE IF squot
    THEN ParseLoop(cmd, i + 1, CopySingleQuoted(a, c), haveArg, dquot, squot, argv)
    ELSE IF dquot
    THEN IF c = "\\"
         THEN IF i + 1 <= Len(cmd)
              THEN ParseLoop(cmd, i + 2, CopyEscaped(a, cmd[i + 1]), haveArg, dquot, squot, argv)
              ELSE Malformed(argv)
         ELSE ParseLoop(cmd, i + 1, Append(a, c), haveArg, dquot, squot, argv)
    ELSE ParseLoop(cmd, i + 1, Append(a, c), haveArg, dquot, squot, argv)

ParseCommandLine_WithoutName(appName, cmdLine) ==
  IF cmdLine = <<>> THEN <<>>
  ELSE ParseLoop(cmdLine, 1, <<>>, FALSE, FALSE, FALSE, <<>>)

ParseCommandLine(appName, cmdLine) ==
  IF cmdLine = <<>> THEN <<appName>>
  ELSE ParseLoop(cmdLine, 1, <<>>, FALSE, FALSE, FALSE, <<appName>>)

\* ------------------------------------------------------------------------
\* GetAbsoluteAppPathFromName: a name with a slash is turned into
\* realpath(dirname) + "/" + basename without any test that the file
\* exists; any other name is looked up on the executable search path.
\* ------------------------------------------------------------------------
Contains(s, ch) == \E i \in 1 .. Len(s) : s[i] = ch

FileExists(app) == app = AppOnPath

FindFileInPath(fileName) == IF FileExists(fileName) THEN <<"/">> \o fileName ELSE <<>>

GetAbsoluteAppPathFromName(appName) ==
  IF Contains(appName, "/") THEN appName ELSE FindFileInPath(appName)

\* ------------------------------------------------------------------------
\* State
\* ------------------------------------------------------------------------
VARIABLES
  nxt,           \* PIDNode::next of every node id (NULL for an unallocated id)
  npid,          \* PIDNode::pid
  allocated,     \* node ids obtained from new PIDNode()
  released,      \* node ids passed to delete
  children,      \* children.head
  freeChildren,  \* freeChildren.head
  zombieLock,    \* "free" or the thread that holds the spin lock
  installed,     \* static bool installed of SetupZombieCollectionHandler
  old_action,    \* disposition saved by sigaction(SIGCHLD, &new, &old_action)
  hostDisp,      \* disposition of SIGCHLD the host had set up before
  sigPending,    \* SIGCHLD deliveries not yet started
  h,             \* the running ZombieWaiter invocation
  procs,         \* the child processes of this process
  nextPid,       \* pid the next successful fork returns
  pipes,         \* the stdout/stderr pipes of the capturing launch
  pfd,           \* pipe descriptors open in the calling process for this call
  call,          \* the launch call the calling thread is executing
  launches,      \* number of launch calls started
  image,         \* program image the calling process is executing
  cwd,           \* working directory of the calling process
  tok,           \* one ParseCommandLine call: its arguments and its result
  environ,       \* the environment of the process (name -> value)
  envMods,       \* GetEnvModifications(): the registered modifications
  eng,           \* the last environment operation: its inputs and its result
  one,           \* one modification applied to one value, and the result
  lists,         \* two PIDLists used on their own, and the last call made
  hook,          \* the last call of an operation this platform lacks, and its result
  inst           \* two threads in SetupZombieCollectionHandler and fork

launcherVars == <<nxt, npid, allocated, released, children, freeChildren,
                  zombieLock, installed, old_action, hostDisp, sigPending, h,
                  procs, nextPid, pipes, pfd, call, launches, image, cwd>>

pureVars == <<tok, environ, envMods, eng, one, lists, hook, inst>>

vars == <<launcherVars, pureVars>>

reaperVars == <<nxt, npid, allocated, released, children, freeChildren>>

NoProc == [st |-> "none", status |-> 0, by |-> "none", kind |-> "none", exists |-> FALSE,
           wait |-> FALSE, steps |-> <<>>]

IdleHandler == [pc |-> "idle", on |-> "none", localChildren |-> NULL,
                waitedChildren |-> NULL, cur |-> NULL, oldCalls |-> 0,
                freed |-> FALSE]

IdleCall == [op |-> "none", pc |-> "idle", app |-> <<>>, cmd |-> <<>>,
             capture |-> FALSE, wait |-> FALSE, pause |-> FALSE, pid |-> 0,
             port |-> 0, retCode |-> 0, status |-> 0, result |-> "none", forks |-> 0,
             waited |-> 0, resumes |-> 0, ret |-> 0, node |-> NULL, probes |-> 0]

NoPipes == [outBuf |-> 0, errBuf |-> 0, wOut |-> 0, wErr |-> 0]

IdleTok == [name |-> <<>>, cmd |-> <<>>, argv |-> <<>>, done |-> FALSE]

IdleEng == [op |-> "none", prev |-> "none", before |-> <<>>, applied |-> <<>>,
            extra |-> <<>>, block |-> <<>>, envp |-> <<>>, ops |-> 0,
            pre |-> <<>>, stage |-> "none"]

IdleOne == [m |-> <<>>, value |-> <<>>, site |-> "none", out |-> <<>>, done |-> FALSE]

\* the nodes and the lists of SpecPIDList (list1 and list2 of lines 1485, 1561)
ListNodes == 1 .. MaxNodes
ListNames == {"list1", "list2"}
NoCall == [op |-> "none", on |-> "none", arg |-> NULL, ret |-> NULL,
           before |-> <<>>, chain |-> <<>>]
IdleLists == [head |-> [l \in ListNames |-> NULL],
              next |-> [n \in ListNodes |-> NULL],
              last |-> NoCall, popped |-> NoCall]

\* no call of InjectIntoProcess or of the global hook functions made yet
IdleHook == [op |-> "none", prev |-> "none", pid |-> 0, result |-> "none",
             message |-> "none", port |-> 0, answer |-> FALSE, calls |-> 0,
             wait |-> FALSE, requested |-> FALSE]

\* the threads of SpecInstall before they call RunProcess
InstThreads == {"A", "B"}
IdleInst == [pc |-> [t \in InstThreads |-> "idle"],
             lock |-> "free", installed |-> FALSE, action |-> "host",
             old_action |-> "none", sigactions |-> 0,
             forks |-> [t \in InstThreads |-> 0], forkedBare |-> FALSE]

\* the tokenizer and the environment engine at rest
PureIdle ==
  /\ tok = IdleTok
  /\ environ = <<>>
  /\ envMods = <<>>
  /\ eng = IdleEng
  /\ one = IdleOne
  /\ lists = IdleLists
  /\ hook = IdleHook
  /\ inst = IdleInst

LauncherInit ==
  /\ nxt = [n \in NodeIds |-> NULL]
  /\ npid = [n \in NodeIds |-> 0]
  /\ allocated = {}
  /\ released = {}
  /\ children = NULL
  /\ freeChildren = NULL
  /\ zombieLock = "free"
  /\ installed = FALSE
  /\ old_action = "SIG_DFL"
  /\ hostDisp \in {"SIG_DFL", "SIG_IGN", "handler"}
  /\ sigPending = 0
  /\ h = IdleHandler
  /\ procs = [p \in Pids |-> NoProc]
  /\ nextPid = 1
  /\ pipes = NoPipes
  /\ pfd = {}
  /\ call = IdleCall
  /\ launches = 0
  /\ image = "self"
  /\ cwd = "start"

Init == LauncherInit /\ PureIdle

\* ------------------------------------------------------------------------
\* Operating-system primitives
\* ------------------------------------------------------------------------
\* a terminated child raises SIGCHLD; ZombieWaiter runs only once installed
RaiseSIGCHLD == IF installed THEN sigPending + 1 ELSE sigPending

\* children whose exit status waitpid(pid, ...) can return right now
\* (pid = -1 selects any child)
Waitable(pid) ==
  {p \in Pids : procs[p].st = "zombie" /\ (pid = ForkFailed \/ pid = p)}

\* children waitpid(pid, ...) could still report on (no ECHILD)
Awaited(pid) ==
  {p \in Pids : procs[p].st \notin {"none", "reaped"} /\ (pid = ForkFailed \/ pid = p)}

Reap(p, who) ==
  [procs EXCEPT ![p] = [NoProc EXCEPT !.st = "reaped", !.by = who,
                                      !.kind = procs[p].kind, !.wait = procs[p].wait]]

\* ------------------------------------------------------------------------
\* ZombieWaiter: the SIGCHLD handler
\* ------------------------------------------------------------------------
\* the signal is delivered on the launching thread "T" or on another thread
\* "O" of the host; the handler then runs on that thread
SignalDeliver(t) ==
  /\ image = "self"
  /\ installed
  /\ sigPending > 0
  /\ h.pc = "idle"
  /\ sigPending' = sigPending - 1
  /\ h' = [IdleHandler EXCEPT !.pc = "chain", !.on = t, !.freed = h.freed]
  /\ UNCHANGED <<reaperVars, zombieLock, installed, old_action, hostDisp, procs,
                 nextPid, pipes, pfd, call, launches, image, cwd>>
  /\ UNCHANGED pureVars

\* a test that forgets the default disposition
OldHandlerIsCallable_IgnoreOnly(act) == act # "SIG_IGN"

\* line 165: the saved disposition is a handler function
OldHandlerIsCallable(act) == act # "SIG_IGN" /\ act # "SIG_DFL"

\* lines 164-171: call the old handler
ZW_CallOldHandler ==
  /\ h.pc = "chain"
  /\ IF OldHandlerIsCallable(old_action)
     THEN h' = [h EXCEPT !.pc = "detach", !.oldCalls = @ + 1]
     ELSE h' = [h EXCEPT !.pc = "detach"]
  /\ UNCHANGED <<reaperVars, zombieLock, installed, old_action, hostDisp,
                 sigPending, procs, nextPid, pipes, pfd, call, launches, image, cwd>>
  /\ UNCHANGED pureVars

\* lines 175-180: take the whole tracked list under the lock
ZW_Detach ==
  /\ h.pc = "detach"
  /\ zombieLock = "free"
  /\ h' = [h EXCEPT !.pc = "loop", !.localChildren = children, !.cur = children]
  /\ children' = NULL
  /\ UNCHANGED <<nxt, npid, allocated, released, freeChildren, zombieLock,
                 installed, old_action, hostDisp, sigPending, procs, nextPid,
                 pipes, pfd, call, launches, image, cwd>>
  /\ UNCHANGED pureVars

\* line 192: the pid handed to waitpid for a detached node
WaitedPid(node) == npid[node]

\* lines 185-200: one iteration of the wait loop
ZW_WaitStep ==
  /\ h.pc = "loop"
  /\ h.cur # NULL
  /\ LET pid == h.cur
         following == nxt[pid]
         targets == Waitable(WaitedPid(pid))
     IN  \/ /\ targets = {}
            /\ h' = [h EXCEPT !.cur = following]
            /\ UNCHANGED <<nxt, procs>>
         \/ \E p \in targets :
              LET rem == ListRemove(h.localChildren, nxt, pid)
                  app == ListAppend(h.waitedChildren, rem.nxt, pid)
              IN  /\ procs' = Reap(p, "reaper")
                  /\ nxt' = app.nxt
                  /\ h' = [h EXCEPT !.cur = following,
                                    !.localChildren = rem.head,
                                    !.waitedChildren = app.head]
  /\ UNCHANGED <<npid, allocated, released, children, freeChildren, zombieLock,
                 installed, old_action, hostDisp, sigPending, nextPid, pipes,
                 pfd, call, launches, image, cwd>>
  /\ UNCHANGED pureVars

\* a reattach that swaps the detached list back instead of appending it
ReattachTracked_Swapped(head, nx, localHead) == [head |-> localHead, nxt |-> nx]

\* a reattach that forgets the detached nodes that were not waited on
ReattachTracked_Forgotten(head, nx, localHead) == [head |-> head, nxt |-> nx]

\* line 207: put the remaining detached nodes back on the tracked list
ReattachTracked(head, nx, localHead) == ListAppend(head, nx, localHead)

\* a handler that forgets the records it waited on
ReleaseWaited_Dropped(head, nx, waitedHead) == [head |-> head, nxt |-> nx]

\* line 208: the waited nodes go to the free list
ReleaseWaited(head, nx, waitedHead) == ListAppend(head, nx, waitedHead)

\* lines 205-212: second locked section, then return from the handler
ZW_Reattach ==
  /\ h.pc = "loop"
  /\ h.cur = NULL
  /\ zombieLock = "free"
  /\ LET back == ReattachTracked(children, nxt, h.localChildren)
         free == ReleaseWaited(freeChildren, back.nxt, h.waitedChildren)
     IN  /\ children' = back.head
         /\ freeChildren' = free.head
         /\ nxt' = free.nxt
  /\ h' = [IdleHandler EXCEPT !.freed = h.freed \/ h.waitedChildren # NULL]
  /\ UNCHANGED <<npid, allocated, released, zombieLock, installed, old_action,
                 hostDisp, sigPending, procs, nextPid, pipes, pfd, call,
                 launches, image, cwd>>
  /\ UNCHANGED pureVars

\* ------------------------------------------------------------------------
\* Child processes
\* ------------------------------------------------------------------------
\* how a child can terminate: a value >= 0 is the code it passed to exit, a
\* negative value the negated number of the signal that killed it
Killed == 0 - 9
ExitStatuses(kind) == IF kind = "capture" THEN {0, 2, Killed} ELSE {0}

\* the integer waitpid stores for a terminated child, and the macros on it
WaitStatus(term) == IF term >= 0 THEN (term % 256) * 256 ELSE 0 - term
WIFEXITED(status) == status % 128 = 0
WEXITSTATUS(status) == (status \div 256) % 256

\* lines 738-739: execve returned, the child leaves through _exit(1)
ExecFailed_ReturnsToCaller(proc) == [proc EXCEPT !.st = "running"]

ExecFailed(proc) == [proc EXCEPT !.st = "zombie", !.status = 1]

\* a child that asks to be stopped only after it has set itself up
ChildSteps_PauseLast(pauseAtMain, capture) ==
  <<"ReleaseFDAfterFork">> \o (IF capture THEN <<"dup2", "close">> ELSE <<>>)
    \o <<"chdir">> \o (IF pauseAtMain THEN <<"StopAtMainInChild">> ELSE <<>>)
    \o <<"execve">>

\* lines 714-736: what the child calls, in order
ChildSteps(pauseAtMain, capture) ==
  (IF pauseAtMain THEN <<"StopAtMainInChild">> ELSE <<>>)
    \o <<"ReleaseFDAfterFork">> \o (IF capture THEN <<"dup2", "close">> ELSE <<>>)
    \o <<"chdir", "execve">>

\* a child whose first call is StopAtMainInChild is held at the entry
\* point of the program it executes until it is resumed
HeldAtMain(steps) == Head(steps) = "StopAtMainInChild"

\* lines 712-740 in the child: pause, redirect, chdir, execve, _exit(1)
ChildExec(p) ==
  /\ procs[p].st = "forked"
  /\ LET steps == ChildSteps(procs[p].kind = "inject", procs[p].kind = "capture")
     IN  IF procs[p].exists
         THEN /\ procs' = [procs EXCEPT ![p].st =
                             IF HeldAtMain(steps) THEN "paused" ELSE "running",
                                        ![p].steps = steps]
              /\ UNCHANGED sigPending
         ELSE /\ procs' = [procs EXCEPT ![p] = [ExecFailed(procs[p]) EXCEPT !.steps = steps]]
              /\ sigPending' = RaiseSIGCHLD
  /\ UNCHANGED <<reaperVars, zombieLock, installed, old_action, hostDisp, h,
                 nextPid, pipes, pfd, call, launches, image, cwd>>
  /\ UNCHANGED pureVars

\* a capturing child writes one unit to stdout or stderr; a full pipe blocks it
ChildWrite(p) ==
  /\ procs[p].st = "running"
  /\ procs[p].kind = "capture"
  /\ \/ /\ pipes.wOut > 0
        /\ pipes.outBuf < PipeCap
        /\ pipes' = [pipes EXCEPT !.wOut = @ - 1, !.outBuf = @ + 1]
     \/ /\ pipes.wErr > 0
        /\ pipes.errBuf < PipeCap
        /\ pipes' = [pipes EXCEPT !.wErr = @ - 1, !.errBuf = @ + 1]
  /\ UNCHANGED <<reaperVars, zombieLock, installed, old_action, hostDisp,
                 sigPending, h, procs, nextPid, pfd, call, launches,
                 image, cwd>>
  /\ UNCHANGED pureVars

\* a running child terminates; its parent is sent SIGCHLD
ChildExit(p) ==
  /\ procs[p].st = "running"
  /\ procs[p].kind = "capture" => (pipes.wOut = 0 /\ pipes.wErr = 0)
  /\ \E s \in ExitStatuses(procs[p].kind) :
       procs' = [procs EXCEPT ![p].st = "zombie", ![p].status = s]
  /\ sigPending' = RaiseSIGCHLD
  /\ UNCHANGED <<reaperVars, zombieLock, installed, old_action, hostDisp, h,
                 nextPid, pipes, pfd, call, launches, image, cwd>>
  /\ UNCHANGED pureVars

\* ------------------------------------------------------------------------
\* Process::LaunchProcess and Process::LaunchAndInjectIntoProcess: entry
\* ------------------------------------------------------------------------
\* the calling thread "T" runs unless a handler invocation interrupted it
ThreadRuns == image = "self" /\ h.on # "T"

PipeEnds == {"out0", "out1", "err0", "err1"}
WriteEnds == {"out1", "err1"}
ReadEnds == {"out0", "err0"}

\* lines 789-809, for a caller that makes at most limit launches
LaunchProcessWithin(limit, app, cmdLine, capture) ==
  /\ ThreadRuns
  /\ call.op = "none"
  /\ launches < limit
  /\ launches' = launches + 1
  /\ IF app = <<>>
     THEN /\ call' = [IdleCall EXCEPT !.op = "launch", !.pc = "done", !.app = app,
                                      !.cmd = cmdLine, !.capture = capture]
          /\ UNCHANGED <<pfd, pipes>>
     ELSE /\ call' = [IdleCall EXCEPT !.op = "launch", !.pc = "run", !.app = app,
                                      !.cmd = cmdLine, !.capture = capture]
          /\ pfd' = IF capture THEN PipeEnds ELSE {}
          /\ pipes' = NoPipes
  /\ UNCHANGED <<reaperVars, zombieLock, installed, old_action, hostDisp,
                 sigPending, h, procs, nextPid, image, cwd>>
  /\ UNCHANGED pureVars

LaunchProcess(app, cmdLine, capture) ==
  LaunchProcessWithin(MaxLaunches, app, cmdLine, capture)

\* lines 1014-1089
LaunchAndInjectIntoProcess(app, cmdLine, waitForExit) ==
  /\ ThreadRuns
  /\ call.op = "none"
  /\ launches < MaxLaunches
  /\ launches' = launches + 1
  /\ IF app = <<>>
     THEN call' = [IdleCall EXCEPT !.op = "inject", !.pc = "done", !.app = app,
                                   !.cmd = cmdLine, !.wait = waitForExit,
                                   !.result = "InvalidParameter"]
     ELSE call' = [IdleCall EXCEPT !.op = "inject", !.pc = "run", !.app = app,
                                   !.cmd = cmdLine, !.wait = waitForExit,
                                   !.pause = TRUE]
  /\ UNCHANGED <<reaperVars, zombieLock, installed, old_action, hostDisp,
                 sigPending, h, procs, nextPid, pipes, pfd, image, cwd>>
  /\ UNCHANGED pureVars

\* ------------------------------------------------------------------------
\* RunProcess
\* ------------------------------------------------------------------------
\* lines 215-233
SetupZombieCollectionHandler ==
  /\ installed' = TRUE
  /\ old_action' = IF installed THEN old_action ELSE hostDisp

ChildKind == IF call.capture THEN "capture" ELSE IF call.pause THEN "inject" ELSE "plain"

\* lines 704-705: fork only if something to execute was found
ShouldFork(appPath) == appPath # <<>>

\* lines 535-566 and 704-712: tokenize, resolve, install the handler, fork
RP_Fork ==
  /\ ThreadRuns
  /\ call.pc = "run"
  /\ IF ParseCommandLine(call.app, call.cmd) = <<>>
     THEN /\ call' = [call EXCEPT !.pc = "after", !.pid = 0]
          /\ UNCHANGED <<installed, old_action, procs, nextPid, pipes, pfd>>
     ELSE IF ~ShouldFork(GetAbsoluteAppPathFromName(call.app))
     THEN /\ call' = [call EXCEPT !.pc = "after", !.pid = 0]
          /\ pfd' = pfd \ WriteEnds
          /\ UNCHANGED <<installed, old_action, procs, nextPid, pipes>>
     ELSE /\ SetupZombieCollectionHandler
          /\ UNCHANGED pfd
          /\ \/ /\ call' = [call EXCEPT !.pc = "forked", !.pid = nextPid, !.forks = @ + 1]
                /\ procs' = [procs EXCEPT ![nextPid] =
                               [st |-> "forked", status |-> 0, by |-> "none",
                                kind |-> ChildKind, exists |-> FileExists(call.app),
                                wait |-> call.wait, steps |-> <<>>]]
                /\ nextPid' = nextPid + 1
                /\ IF call.capture
                   THEN \E o \in 0 .. MaxWrite, e \in 0 .. MaxWrite :
                          pipes' = [NoPipes EXCEPT !.wOut = o, !.wErr = e]
                   ELSE UNCHANGED pipes
             \/ /\ call' = [call EXCEPT !.pc = "forked", !.pid = ForkFailed]
                /\ UNCHANGED <<procs, nextPid, pipes>>
  /\ UNCHANGED <<reaperVars, zombieLock, hostDisp, sigPending, h,
                 launches, image, cwd>>
  /\ UNCHANGED pureVars

\* StopChildAtMain returns once the child is stopped at its entry point or
\* can no longer reach it
ChildSettled(pid) ==
  IF pid \in Pids THEN procs[pid].st \in {"paused", "zombie", "reaped"} ELSE TRUE

\* lines 743-749: confirm the stop, then take the lock to remember the pid
RP_AfterFork ==
  /\ ThreadRuns
  /\ call.pc = "forked"
  /\ call.pause => ChildSettled(call.pid)
  /\ IF call.capture
     THEN /\ call' = [call EXCEPT !.pc = "after"]
          /\ pfd' = pfd \ WriteEnds
          /\ UNCHANGED zombieLock
     ELSE /\ zombieLock = "free"
          /\ zombieLock' = "T"
          /\ call' = [call EXCEPT !.pc = "locked"]
          /\ UNCHANGED pfd
  /\ UNCHANGED <<reaperVars, installed, old_action, hostDisp, sigPending, h,
                 procs, nextPid, pipes, launches, image, cwd>>
  /\ UNCHANGED pureVars

NewNode == CHOOSE n \in NodeIds \ allocated : \A m \in NodeIds \ allocated : n <= m

\* a registration that never looks at the free list
TakesFromFreeList_Never(head) == FALSE

\* line 754: a node is taken from the free list if it has one
TakesFromFreeList(head) == head # NULL

\* lines 751-757: take a node from the free list if available, otherwise
\* allocate a new one
RP_TakeNode ==
  /\ ThreadRuns
  /\ call.pc = "locked"
  /\ IF TakesFromFreeList(freeChildren)
     THEN LET pop == ListPopFront(freeChildren, nxt)
          IN  /\ freeChildren' = pop.head
              /\ nxt' = pop.nxt
              /\ call' = [call EXCEPT !.pc = "taken", !.node = pop.ret]
              /\ UNCHANGED allocated
     ELSE /\ allocated' = allocated \cup {NewNode}
          /\ call' = [call EXCEPT !.pc = "taken", !.node = NewNode]
          /\ UNCHANGED <<freeChildren, nxt>>
  /\ UNCHANGED <<npid, released, children, zombieLock, installed, old_action,
                 hostDisp, sigPending, h, procs, nextPid, pipes, pfd, launches,
                 image, cwd>>
  /\ UNCHANGED pureVars

\* lines 759-762: store the pid, append to the tracked list, drop the lock
RP_Register ==
  /\ ThreadRuns
  /\ call.pc = "taken"
  /\ LET app == ListAppend(children, nxt, call.node)
     IN  /\ npid' = [npid EXCEPT ![call.node] = call.pid]
         /\ children' = app.head
         /\ nxt' = app.nxt
  /\ zombieLock' = "free"
  /\ call' = [call EXCEPT !.pc = "after", !.node = NULL]
  /\ UNCHANGED <<allocated, released, freeChildren, installed, old_action,
                 hostDisp, sigPending, h, procs, nextPid, pipes, pfd, launches,
                 image, cwd>>
  /\ UNCHANGED pureVars

\* lines 595-703: the fixed launch that precedes the fork path in the file
RP_Hardcoded ==
  /\ ThreadRuns
  /\ call.pc = "run"
  /\ IF ParseCommandLine(call.app, call.cmd) = <<>>
     THEN /\ call' = [call EXCEPT !.pc = "after", !.pid = 0]
          /\ UNCHANGED <<image, cwd>>
     ELSE /\ cwd' \in {cwd, "QingLong"}
          /\ \/ /\ image' = "hmi"
                /\ UNCHANGED call
             \/ /\ call' = [call EXCEPT !.pc = "after", !.pid = 0]
                /\ UNCHANGED image
  /\ UNCHANGED <<reaperVars, zombieLock, installed, old_action, hostDisp,
                 sigPending, h, procs, nextPid, pipes, pfd, launches>>
  /\ UNCHANGED pureVars

\* ------------------------------------------------------------------------
\* Process::LaunchProcess after RunProcess returned
\* ------------------------------------------------------------------------
\* lines 811-816 and 851-856: nothing to drain, close the read ends
LP_NoChild ==
  /\ ThreadRuns
  /\ call.op = "launch"
  /\ call.pc = "after"
  /\ ~call.capture \/ call.pid = 0
  /\ call' = [call EXCEPT !.pc = "done", !.ret = call.pid]
  /\ pfd' = IF call.capture THEN pfd \ ReadEnds ELSE pfd
  /\ UNCHANGED <<reaperVars, zombieLock, installed, old_action, hostDisp,
                 sigPending, h, procs, nextPid, pipes, launches, image, cwd>>
  /\ UNCHANGED pureVars

\* a read end is at end-of-file when no process holds the write end
WriterAlive ==
  \E p \in Pids : procs[p].kind = "capture" /\ procs[p].st \in {"forked", "running"}

EndOfFile(writeEnd) == writeEnd \notin pfd /\ ~WriterAlive

\* lines 820-825: read stdout until end-of-file
LP_ReadStdout ==
  /\ ThreadRuns
  /\ call.op = "launch"
  /\ call.pc = "after"
  /\ call.capture /\ call.pid # 0
  /\ IF pipes.outBuf > 0
     THEN /\ pipes' = [pipes EXCEPT !.outBuf = 0]
          /\ UNCHANGED call
     ELSE /\ EndOfFile("out1")
          /\ call' = [call EXCEPT !.pc = "drainErr"]
          /\ UNCHANGED pipes
  /\ UNCHANGED <<reaperVars, zombieLock, installed, old_action, hostDisp,
                 sigPending, h, procs, nextPid, pfd, launches, image, cwd>>
  /\ UNCHANGED pureVars

\* lines 827-833: read stderr until end-of-file
LP_ReadStderr ==
  /\ ThreadRuns
  /\ call.pc = "drainErr"
  /\ IF pipes.errBuf > 0
     THEN /\ pipes' = [pipes EXCEPT !.errBuf = 0]
          /\ UNCHANGED call
     ELSE /\ EndOfFile("err1")
          /\ call' = [call EXCEPT !.pc = "wait"]
          /\ UNCHANGED pipes
  /\ UNCHANGED <<reaperVars, zombieLock, installed, old_action, hostDisp,
                 sigPending, h, procs, nextPid, pfd, launches, image, cwd>>
  /\ UNCHANGED pureVars

\* a classification that reports every normal exit as code 0
ClassifyStatus_ExitedIsZero(status) == IF WIFEXITED(status) THEN 0 ELSE 1

\* lines 835 and 845-848: classify the wait status
ClassifyStatus(status) == IF WIFEXITED(status) THEN WEXITSTATUS(status) ELSE 1

\* lines 835-856: blocking wait, classification, close the read ends
LP_Wait ==
  /\ ThreadRuns
  /\ call.pc = "wait"
  /\ \/ /\ Awaited(call.pid) = {}
        /\ call' = [call EXCEPT !.pc = "done", !.retCode = 1, !.waited = ForkFailed,
                                !.ret = call.pid]
        /\ UNCHANGED procs
     \/ \E p \in Waitable(call.pid) :
          /\ procs' = Reap(p, "launcher")
          /\ call' = [call EXCEPT !.pc = "done", !.waited = p,
                                  !.ret = call.pid,
                                  !.status = procs[p].status,
                                  !.retCode = ClassifyStatus(WaitStatus(procs[p].status))]
  /\ pfd' = pfd \ ReadEnds
  /\ UNCHANGED <<reaperVars, zombieLock, installed, old_action, hostDisp,
                 sigPending, h, nextPid, pipes, launches, image, cwd>>
  /\ UNCHANGED pureVars

\* ------------------------------------------------------------------------
\* Process::LaunchAndInjectIntoProcess after RunProcess returned
\* ------------------------------------------------------------------------
\* lines 1110-1117
InjectResult(ret) == IF ret = 0 THEN "InjectionFailed" ELSE "Ok"

\* lines 1091-1093 and 1108-1117: no child, the port stays 0
LI_NoChild ==
  /\ ThreadRuns
  /\ call.op = "inject"
  /\ call.pc = "after"
  /\ call.pid = 0
  /\ call' = [call EXCEPT !.pc = "done", !.result = InjectResult(0)]
  /\ UNCHANGED <<reaperVars, zombieLock, installed, old_action, hostDisp,
                 sigPending, h, procs, nextPid, pipes, pfd, launches,
                 image, cwd>>
  /\ UNCHANGED pureVars

\* line 1097: GetIdentPort gives the port found within its bounded retry, or 0
LI_Probe ==
  /\ ThreadRuns
  /\ call.op = "inject"
  /\ call.pc = "after"
  /\ call.pid # 0
  /\ \E port \in Ports :
       call' = [call EXCEPT !.pc = "resume", !.port = port, !.probes = @ + 1]
  /\ UNCHANGED <<reaperVars, zombieLock, installed, old_action, hostDisp,
                 sigPending, h, procs, nextPid, pipes, pfd, launches,
                 image, cwd>>
  /\ UNCHANGED pureVars

\* ResumeProcess lets a child that is stopped at its entry point continue
ResumeProcess(ps, pid) ==
  IF pid \in Pids /\ ps[pid].st = "paused" THEN [ps EXCEPT ![pid].st = "running"] ELSE ps

\* a coordinator that resumes the child only after a successful handshake
ShouldResume_OnlyOnSuccess(port) == port # 0

\* lines 1097-1099: the child is resumed whatever the probe returned
ShouldResume(port) == TRUE

\* lines 1099-1117 without the wait
LI_Resume ==
  /\ ThreadRuns
  /\ call.pc = "resume"
  /\ IF ShouldResume(call.port)
     THEN /\ procs' = ResumeProcess(procs, call.pid)
          /\ call' = [call EXCEPT !.resumes = @ + 1,
                                  !.pc = IF call.wait THEN "iwait" ELSE "done",
                                  !.result = InjectResult(call.port)]
     ELSE /\ UNCHANGED procs
          /\ call' = [call EXCEPT !.pc = IF call.wait THEN "iwait" ELSE "done",
                                  !.result = InjectResult(call.port)]
  /\ UNCHANGED <<reaperVars, zombieLock, installed, old_action, hostDisp,
                 sigPending, h, nextPid, pipes, pfd, launches, image, cwd>>
  /\ UNCHANGED pureVars

\* lines 1101-1105: blocking wait for the child
LI_Wait ==
  /\ ThreadRuns
  /\ call.pc = "iwait"
  /\ \/ /\ Awaited(call.pid) = {}
        /\ call' = [call EXCEPT !.pc = "done", !.waited = ForkFailed]
        /\ UNCHANGED procs
     \/ \E p \in Waitable(call.pid) :
          /\ procs' = Reap(p, "coordinator")
          /\ call' = [call EXCEPT !.pc = "done", !.waited = p]
  /\ UNCHANGED <<reaperVars, zombieLock, installed, old_action, hostDisp,
                 sigPending, h, nextPid, pipes, pfd, launches, image, cwd>>
  /\ UNCHANGED pureVars

\* the call returns to its caller; descriptors it left open stay open
CallReturn ==
  /\ ThreadRuns
  /\ call.pc = "done"
  /\ call' = IdleCall
  /\ pfd' = {}
  /\ UNCHANGED <<reaperVars, zombieLock, installed, old_action, hostDisp,
                 sigPending, h, procs, nextPid, pipes, launches, image, cwd>>
  /\ UNCHANGED pureVars

\* ------------------------------------------------------------------------
\* Process::Shutdown, lines 1165-1174: delete every node of the free list
\* ------------------------------------------------------------------------
\* a loop that deletes the first node only
DeleteFrom_HeadOnly(head, nx) == IF head = NULL THEN {} ELSE {head}

\* the nodes the loop at lines 1168-1173 passes to delete
DeleteFrom(head, nx) == ChainSet(head, nx)

Shutdown ==
  /\ ThreadRuns
  /\ call.op = "none"
  /\ freeChildren # NULL
  /\ released' = released \cup DeleteFrom(freeChildren, nxt)
  /\ released' # released
  /\ UNCHANGED <<nxt, npid, allocated, children, freeChildren, zombieLock,
                 installed, old_action, hostDisp, sigPending, h, procs, nextPid,
                 pipes, pfd, call, launches, image, cwd>>
  /\ UNCHANGED pureVars

\* ------------------------------------------------------------------------
\* Specifications
\* ------------------------------------------------------------------------
Children == \E p \in Pids : ChildExec(p) \/ ChildWrite(p) \/ ChildExit(p)

Handler ==
  \/ \E t \in {"T", "O"} : SignalDeliver(t)
  \/ ZW_CallOldHandler
  \/ ZW_Detach
  \/ ZW_WaitStep
  \/ ZW_Reattach

Calls ==
  \/ \E app \in Apps, cmdLine \in CmdLines, capture \in BOOLEAN :
       LaunchProcess(app, cmdLine, capture)
  \/ \E app \in Apps, cmdLine \in CmdLines, waitForExit \in BOOLEAN :
       LaunchAndInjectIntoProcess(app, cmdLine, waitForExit)

Next ==
  \/ Calls
  \/ RP_Fork
  \/ RP_AfterFork
  \/ RP_TakeNode
  \/ RP_Register
  \/ LP_NoChild
  \/ LP_ReadStdout
  \/ LP_ReadStderr
  \/ LP_Wait
  \/ LI_NoChild
  \/ LI_Probe
  \/ LI_Resume
  \/ LI_Wait
  \/ CallReturn
  \/ Shutdown
  \/ Handler
  \/ Children

Spec == Init /\ [][Next]_vars

NextHardcoded ==
  \/ Calls
  \/ RP_Hardcoded
  \/ LP_NoChild
  \/ LI_NoChild
  \/ CallReturn

SpecHardcoded == Init /\ [][NextHardcoded]_vars

TypeOK ==
  /\ children \in NodeIds \cup {NULL}
  /\ freeChildren \in NodeIds \cup {NULL}
  /\ zombieLock \in {"free", "T"}
  /\ sigPending \in 0 .. MaxLaunches

\* ------------------------------------------------------------------------
\* SpecTokenizer: ParseCommandLine applied to every short command line
\* ------------------------------------------------------------------------
TokChars == {"x", " ", "\t", "'", "\"", "\\"}

RECURSIVE StringsUpTo(_)
StringsUpTo(n) ==
  IF n = 0 THEN {<<>>}
  ELSE LET shorter == StringsUpTo(n - 1) IN
       shorter \cup {Append(w, ch) : w \in shorter, ch \in TokChars}

TokNames == {<<>>, <<"a">>}
TokCmdLines == StringsUpTo(MaxLen)

InitTokenizer ==
  /\ LauncherInit
  /\ hostDisp = "SIG_DFL"
  /\ lists = IdleLists
  /\ hook = IdleHook
  /\ inst = IdleInst
  /\ tok \in {[name |-> n, cmd |-> c, argv |-> <<>>, done |-> FALSE] :
                n \in TokNames, c \in TokCmdLines}
  /\ environ = <<>>
  /\ envMods = <<>>
  /\ eng = IdleEng
  /\ one = IdleOne

Tokenize ==
  /\ ~tok.done
  /\ tok' = [tok EXCEPT !.argv = ParseCommandLine(tok.name, tok.cmd), !.done = TRUE]
  /\ UNCHANGED <<launcherVars, lists, hook, inst, environ, envMods, eng, one>>

NextTokenizer == Tokenize

SpecTokenizer == InitTokenizer /\ [][NextTokenizer]_vars

\* ------------------------------------------------------------------------
\* Environment: names, values and "name=value" entries are character
\* sequences; a map (std::map<rdcstr, rdcstr>) is a function whose domain
\* is the set of names present.
\* ------------------------------------------------------------------------
LIB_PATH_ENV_VAR == <<"L">>
PRELOAD_ENV_VAR == <<"P">>
RENDERDOC_ORIGLIBPATH == <<"O", "L">>
RENDERDOC_ORIGPRELOAD == <<"O", "P">>
RENDERDOC_CAPFILE == <<"C", "F">>
RENDERDOC_CAPOPTS == <<"C", "O">>
RENDERDOC_DEBUG_LOG_FILE == <<"D">>
RENDERDOC_VULKAN_LAYER_VAR == <<"V">>
UserVar == <<"K">>

MapGet(map, name) == IF name \in DOMAIN map THEN map[name] ELSE <<>>

MapPut(map, name, value) ==
  [k \in (DOMAIN map) \cup {name} |-> IF k = name THEN value ELSE map[k]]

MapErase(map, name) == [k \in (DOMAIN map) \ {name} |-> map[k]]

\* the NULL pointer that ends an array of entries, and the character '\\0'
EndOfArray == <<"NULL">>
NUL == "NUL"

Entry(name, value) == (name \o <<"=">>) \o value

\* strchr(*e, '='): index of the first '=' of an entry, 0 when there is none
RECURSIVE FirstEquals(_, _)
FirstEquals(entry, i) ==
  IF i > Len(entry) THEN 0
  ELSE IF entry[i] = "=" THEN i
  ELSE FirstEquals(entry, i + 1)

\* lines 275-300: entries without '=' are skipped, a later entry of the
\* same name replaces an earlier one
RECURSIVE EnvStringToEnvMapFrom(_, _, _)
EnvStringToEnvMapFrom(envstring, i, ret) ==
  IF envstring[i] = EndOfArray THEN ret
  ELSE LET e == envstring[i]
           equals == FirstEquals(e, 1)
       IN IF equals = 0
          THEN EnvStringToEnvMapFrom(envstring, i + 1, ret)
          ELSE EnvStringToEnvMapFrom(envstring, i + 1,
                 MapPut(ret, SubSeq(e, 1, equals - 1), SubSeq(e, equals + 1, Len(e))))

EnvStringToEnvMap(envstring) == EnvStringToEnvMapFrom(envstring, 1, <<>>)

\* the order in which std::map iterates: names compared character by
\* character by their codes, a proper prefix first
CharCode == [c \in {"C", "D", "F", "K", "L", "O", "P", "V"} |->
               CASE c = "C" -> 67 [] c = "D" -> 68 [] c = "F" -> 70
                 [] c = "K" -> 75 [] c = "L" -> 76 [] c = "O" -> 79
                 [] c = "P" -> 80 [] c = "V" -> 86]

RECURSIVE NameLess(_, _, _)
NameLess(a, b, i) ==
  IF i > Len(b) THEN FALSE
  ELSE IF i > Len(a) THEN TRUE
  ELSE IF a[i] = b[i] THEN NameLess(a, b, i + 1)
  ELSE CharCode[a[i]] < CharCode[b[i]]

RECURSIVE MapOrder(_)
MapOrder(names) ==
  IF names = {} THEN <<>>
  ELSE LET first == CHOOSE n \in names : \A o \in names \ {n} : NameLess(n, o, 1)
       IN <<first>> \o MapOrder(names \ {first})

\* ------------------------------------------------------------------------
\* EnvironmentModification and its application to one value
\* ------------------------------------------------------------------------
EnvMod == {"Set", "Append", "Prepend"}
EnvSep == {"NoSep", "Platform", "Colon", "SemiColon"}

EnvironmentModification(mod, sep, name, value) ==
  [mod |-> mod, sep |-> sep, name |-> name, value |-> value]

\* lines 363-366, 376-379, 1049-1052, 1061-1064
Separator(sep) ==
  IF sep = "Platform" \/ sep = "Colon" THEN <<":">>
  ELSE IF sep = "SemiColon" THEN <<";">>
  ELSE <<>>

ApplySingleEnvMod_AlwaysSeparates(m, value) ==
  CASE m.mod = "Set" -> m.value
    [] m.mod = "Append" -> (value \o Separator(m.sep)) \o m.value
    [] m.mod = "Prepend" -> (m.value \o Separator(m.sep)) \o value

\* lines 354-389
ApplySingleEnvMod(m, value) ==
  CASE m.mod = "Set" -> m.value
    [] m.mod = "Append" ->
         (IF value # <<>> THEN value \o Separator(m.sep) ELSE value) \o m.value
    [] m.mod = "Prepend" ->
         IF value # <<>>
         THEN (m.value \o Separator(m.sep)) \o value
         ELSE m.value

\* lines 1042-1072: the switch written out inside LaunchAndInjectIntoProcess
InjectSingleEnvMod(m, value) ==
  CASE m.mod = "Set" -> m.value
    [] m.mod = "Append" ->
         (IF value # <<>> THEN value \o Separator(m.sep) ELSE value) \o m.value
    [] m.mod = "Prepend" ->
         IF value # <<>>
         THEN value \o Separator(m.sep)
         ELSE m.value

\* the environment of the process as an array of "name=value" entries
GetCurrentEnvironment ==
  LET order == MapOrder(DOMAIN environ)
  IN [i \in 1 .. Len(order) |-> Entry(order[i], environ[order[i]])] \o <<EndOfArray>>

GetEnvVariable(name) == MapGet(environ, name)

setenv(env, name, value) == MapPut(env, name, value)

unsetenv(env, name) == MapErase(env, name)

\* lines 397-406: every modification starts from the value the name had
\* when the snapshot currentEnv was taken (line 401 copies it), and its
\* result is exported with setenv
RECURSIVE ApplyEnvironmentModificationsFrom(_, _, _, _)
ApplyEnvironmentModificationsFrom(modifications, i, currentEnv, env) ==
  IF i > Len(modifications) THEN env
  ELSE LET m == modifications[i]
           value == ApplySingleEnvMod(m, MapGet(currentEnv, m.name))
       IN ApplyEnvironmentModificationsFrom(modifications, i + 1, currentEnv,
                                            setenv(env, m.name, value))

\* lines 391-407
ApplyEnvironmentModifications(modifications) ==
  ApplyEnvironmentModificationsFrom(modifications, 1,
                                    EnvStringToEnvMap(GetCurrentEnvironment), environ)

\* ------------------------------------------------------------------------
\* The modifications of a hooked launch, and environment blocks
\* ------------------------------------------------------------------------
binpath == <<"b">>
libpath == binpath \o <<"l">>
ownlibpath == <<"w">>
libfile == <<"r">>
capturefile == <<"c">>
optstr == <<"e">>
logfile == <<"g">>

\* lines 868-919
GetHookingEnvMods(modifications) ==
  modifications \o
  << EnvironmentModification("Append", "Platform", RENDERDOC_ORIGLIBPATH,
                             GetEnvVariable(LIB_PATH_ENV_VAR)),
     EnvironmentModification("Append", "Platform", RENDERDOC_ORIGPRELOAD,
                             GetEnvVariable(PRELOAD_ENV_VAR)),
     EnvironmentModification("Append", "Platform", LIB_PATH_ENV_VAR, binpath),
     EnvironmentModification("Append", "Platform", LIB_PATH_ENV_VAR, libpath),
     EnvironmentModification("Append", "Platform", LIB_PATH_ENV_VAR, ownlibpath),
     EnvironmentModification("Append", "Platform", PRELOAD_ENV_VAR, libfile),
     EnvironmentModification("Set", "NoSep", RENDERDOC_CAPFILE, capturefile),
     EnvironmentModification("Set", "NoSep", RENDERDOC_CAPOPTS, optstr),
     EnvironmentModification("Set", "NoSep", RENDERDOC_DEBUG_LOG_FILE, logfile) >>

\* lines 940-950 and 984-994: name=value\0 for every name in map order, then \0
RECURSIVE FlattenFrom(_, _, _)
FlattenFrom(envmap, order, i) ==
  IF i > Len(order) THEN <<NUL>>
  ELSE (Entry(order[i], envmap[order[i]]) \o <<NUL>>) \o FlattenFrom(envmap, order, i + 1)

Flatten(envmap) == FlattenFrom(envmap, MapOrder(DOMAIN envmap), 1)

RECURSIVE strlen(_, _)
strlen(str, c) == IF str[c] = NUL THEN 0 ELSE 1 + strlen(str, c + 1)

\* lines 952-959 and 996-1003: one pointer per string up to the first
\* empty string, then NULL
RECURSIVE PointersFrom(_, _, _)
PointersFrom(envpStr, c, modifiedEnv) ==
  IF envpStr[c] = NUL THEN Append(modifiedEnv, EndOfArray)
  ELSE LET n == strlen(envpStr, c)
       IN PointersFrom(envpStr, c + n + 1,
                       Append(modifiedEnv, SubSeq(envpStr, c, c + n - 1)))

GetUnhookedEnvp_KeepsMarker(envp) ==
  PointersFrom(Flatten(EnvStringToEnvMap(envp)), 1, <<>>)

\* lines 931-960
GetUnhookedEnvp(envp) ==
  LET envmap == MapErase(EnvStringToEnvMap(envp), RENDERDOC_VULKAN_LAYER_VAR)
  IN PointersFrom(Flatten(envmap), 1, <<>>)

\* lines 971-982: the two backup modifications take their value from envp,
\* and every modification is applied to the map in place
RECURSIVE HookFrom(_, _, _)
HookFrom(modifications, i, envmap) ==
  IF i > Len(modifications) THEN envmap
  ELSE LET given == modifications[i]
           mod == IF given.name = RENDERDOC_ORIGLIBPATH
                  THEN [given EXCEPT !.value = MapGet(envmap, LIB_PATH_ENV_VAR)]
                  ELSE IF given.name = RENDERDOC_ORIGPRELOAD
                  THEN [given EXCEPT !.value = MapGet(envmap, PRELOAD_ENV_VAR)]
                  ELSE given
       IN HookFrom(modifications, i + 1,
                   MapPut(envmap, mod.name, ApplySingleEnvMod(mod, MapGet(envmap, mod.name))))

\* lines 962-1004
GetHookedEnvp(envp) ==
  LET envmap == HookFrom(GetHookingEnvMods(<<>>), 1, EnvStringToEnvMap(envp))
  IN PointersFrom(Flatten(envmap), 1, <<>>)

\* lines 1036-1073: every modification is applied to the map in place
RECURSIVE InjectFrom(_, _, _)
InjectFrom(modifications, i, env) ==
  IF i > Len(modifications) THEN env
  ELSE LET m == modifications[i]
       IN InjectFrom(modifications, i + 1,
                     MapPut(env, m.name, InjectSingleEnvMod(m, MapGet(env, m.name))))

\* lines 1029-1034: registered modifications, then envList, then the
\* modifications of the hooked launch
InjectModifications(envList) == GetHookingEnvMods(envMods \o envList)

\* lines 1026-1085
InjectEnvp(envList) ==
  LET env == InjectFrom(InjectModifications(envList), 1,
                        EnvStringToEnvMap(GetCurrentEnvironment))
      order == MapOrder(DOMAIN env)
  IN [i \in 1 .. Len(order) |-> Entry(order[i], env[order[i]])] \o <<EndOfArray>>

\* ------------------------------------------------------------------------
\* SpecEnvMod: one modification applied to one value, by ApplySingleEnvMod
\* and by the switch inside LaunchAndInjectIntoProcess
\* ------------------------------------------------------------------------
ModValues == {<<>>, <<"v">>}
CurValues == {<<>>, <<"o">>}
ApplySites == {"ApplySingleEnvMod", "LaunchAndInjectIntoProcess"}

AllMods ==
  {EnvironmentModification(mod, sep, UserVar, v) :
     mod \in EnvMod, sep \in EnvSep, v \in ModValues}

ApplyAt(site, m, value) ==
  IF site = "ApplySingleEnvMod"
  THEN ApplySingleEnvMod(m, value)
  ELSE InjectSingleEnvMod(m, value)

InitEnvMod ==
  /\ LauncherInit
  /\ hostDisp = "SIG_DFL"
  /\ lists = IdleLists
  /\ hook = IdleHook
  /\ inst = IdleInst
  /\ tok = IdleTok
  /\ environ = <<>>
  /\ envMods = <<>>
  /\ eng = IdleEng
  /\ one \in {[m |-> m, value |-> v, site |-> site, out |-> <<>>, done |-> FALSE] :
                m \in AllMods, v \in CurValues, site \in ApplySites}

\* lines 354-389
ApplyOne ==
  /\ ~one.done
  /\ one.site = "ApplySingleEnvMod"
  /\ one' = [one EXCEPT !.out = ApplySingleEnvMod(one.m, one.value), !.done = TRUE]
  /\ UNCHANGED <<launcherVars, lists, hook, inst, tok, environ, envMods, eng>>

\* lines 1038-1072
InjectOne ==
  /\ ~one.done
  /\ one.site = "LaunchAndInjectIntoProcess"
  /\ one' = [one EXCEPT !.out = InjectSingleEnvMod(one.m, one.value), !.done = TRUE]
  /\ UNCHANGED <<launcherVars, lists, hook, inst, tok, environ, envMods, eng>>

NextEnvMod == ApplyOne \/ InjectOne

SpecEnvMod == InitEnvMod /\ [][NextEnvMod]_vars

\* ------------------------------------------------------------------------
\* SpecEnv: registration and application of modifications to the
\* environment of the process, hooking and unhooking of environment
\* blocks, and the environment composed for an injected launch
\* ------------------------------------------------------------------------
BaseValue ==
  [n \in {LIB_PATH_ENV_VAR, PRELOAD_ENV_VAR, RENDERDOC_ORIGLIBPATH, UserVar,
          RENDERDOC_VULKAN_LAYER_VAR} |->
     CASE n = LIB_PATH_ENV_VAR -> <<"o">>
       [] n = PRELOAD_ENV_VAR -> <<"q">>
       [] n = RENDERDOC_ORIGLIBPATH -> <<"z">>
       [] n = UserVar -> <<"k">>
       [] n = RENDERDOC_VULKAN_LAYER_VAR -> <<"1">>]

BaseEnvs == {[n \in present |-> BaseValue[n]] : present \in SUBSET DOMAIN BaseValue}

\* the modifications a caller registers or passes as envList
CallerMods ==
  { EnvironmentModification("Set", "NoSep", UserVar, <<"s">>),
    EnvironmentModification("Append", "Colon", UserVar, <<"a">>),
    EnvironmentModification("Append", "SemiColon", UserVar, <<"a">>),
    EnvironmentModification("Prepend", "Colon", UserVar, <<"p">>),
    EnvironmentModification("Prepend", "SemiColon", UserVar, <<"p">>),
    EnvironmentModification("Append", "Platform", LIB_PATH_ENV_VAR, <<"a">>),
    EnvironmentModification("Prepend", "Platform", LIB_PATH_ENV_VAR, <<"p">>) }

EnvLists ==
  { <<>>,
    <<EnvironmentModification("Append", "Colon", UserVar, <<"x">>)>>,
    <<EnvironmentModification("Set", "NoSep", LIB_PATH_ENV_VAR, <<"x">>)>> }

\* envp arrays a hooked program passes to exec: a repeated name, an entry
\* without '=', and the array of the process itself
EnvBlocks ==
  { GetCurrentEnvironment,
    << Entry(UserVar, <<"k">>), Entry(RENDERDOC_VULKAN_LAYER_VAR, <<"1">>),
       Entry(UserVar, <<"j">>), EndOfArray >>,
    << UserVar, Entry(LIB_PATH_ENV_VAR, <<"o">>), EndOfArray >> }

InitEnv ==
  /\ LauncherInit
  /\ hostDisp = "SIG_DFL"
  /\ lists = IdleLists
  /\ hook = IdleHook
  /\ inst = IdleInst
  /\ tok = IdleTok
  /\ one = IdleOne
  /\ environ \in BaseEnvs
  /\ envMods = <<>>
  /\ eng = IdleEng

Step(op) == [eng EXCEPT !.op = op, !.prev = eng.op, !.ops = @ + 1, !.before = environ,
                        !.applied = <<>>, !.extra = <<>>, !.block = <<>>,
                        !.envp = <<>>, !.pre = <<>>, !.stage = "none"]

\* lines 349-352
RegisterEnvironmentModification(modif) ==
  /\ eng.ops < MaxEnvOps
  /\ Len(envMods) < MaxMods
  /\ envMods' = Append(envMods, modif)
  /\ eng' = Step("register")
  /\ UNCHANGED <<launcherVars, lists, hook, inst, tok, one, environ>>

\* line 422: modifications.clear()
Cleared_Kept(modifications) == modifications

Cleared(modifications) == <<>>

\* lines 416-423
ApplyEnvironmentModification ==
  /\ eng.ops < MaxEnvOps
  /\ environ' = ApplyEnvironmentModifications(envMods)
  /\ envMods' = Cleared(envMods)
  /\ eng' = [Step("apply") EXCEPT !.applied = envMods]
  /\ UNCHANGED <<launcherVars, lists, hook, inst, tok, one>>

PreHook(env) == [lib |-> MapGet(env, LIB_PATH_ENV_VAR),
                 preload |-> MapGet(env, PRELOAD_ENV_VAR)]

\* lines 921-929
PreForkConfigureHooks ==
  /\ eng.ops < MaxEnvOps
  /\ environ' = ApplyEnvironmentModifications(GetHookingEnvMods(<<>>))
  /\ eng' = [Step("prefork") EXCEPT !.applied = GetHookingEnvMods(<<>>),
                                    !.pre = PreHook(environ), !.stage = "hooked"]
  /\ UNCHANGED <<launcherVars, lists, hook, inst, tok, one, envMods>>

\* lines 1006-1012
ResetHookingEnvVars ==
  /\ eng.ops < MaxEnvOps
  /\ LET lib == setenv(environ, LIB_PATH_ENV_VAR, GetEnvVariable(RENDERDOC_ORIGLIBPATH))
         pre == setenv(lib, PRELOAD_ENV_VAR, GetEnvVariable(RENDERDOC_ORIGPRELOAD))
     IN environ' = unsetenv(unsetenv(pre, RENDERDOC_ORIGLIBPATH), RENDERDOC_ORIGPRELOAD)
  /\ eng' = [Step("reset") EXCEPT !.pre = eng.pre,
               !.stage = IF eng.stage \in {"hooked", "child"} THEN "reset" ELSE "none"]
  /\ UNCHANGED <<launcherVars, lists, hook, inst, tok, one, envMods>>

\* an exec hook composes the environment of a child that stays hooked
HookedEnvp(envp) ==
  /\ eng.ops < MaxEnvOps
  /\ eng' = [Step("hooked") EXCEPT !.block = envp, !.envp = GetHookedEnvp(envp),
               !.pre = PreHook(EnvStringToEnvMap(envp)), !.stage = "envp"]
  /\ UNCHANGED <<launcherVars, lists, hook, inst, tok, one, environ, envMods>>

\* an exec hook composes the environment of a child that is not hooked
UnhookedEnvp(envp) ==
  /\ eng.ops < MaxEnvOps
  /\ eng' = [Step("unhooked") EXCEPT !.block = envp, !.envp = GetUnhookedEnvp(envp)]
  /\ UNCHANGED <<launcherVars, lists, hook, inst, tok, one, environ, envMods>>

\* lines 1026-1085 of LaunchAndInjectIntoProcess
InjectEnvironment(envList) ==
  /\ eng.ops < MaxEnvOps
  /\ eng' = [Step("inject") EXCEPT !.extra = envList, !.envp = InjectEnvp(envList),
               !.applied = InjectModifications(envList)]
  /\ UNCHANGED <<launcherVars, lists, hook, inst, tok, one, environ, envMods>>

\* the hooked child starts with the composed array as its environment
\* and with no registered modification
EnterHookedChild ==
  /\ eng.ops < MaxEnvOps
  /\ eng.op = "hooked"
  /\ environ' = EnvStringToEnvMap(eng.envp)
  /\ envMods' = <<>>
  /\ eng' = [Step("child") EXCEPT !.pre = eng.pre, !.stage = "child", !.block = eng.block]
  /\ UNCHANGED <<launcherVars, lists, hook, inst, tok, one>>

NextEnv ==
  \/ \E modif \in CallerMods : RegisterEnvironmentModification(modif)
  \/ ApplyEnvironmentModification
  \/ PreForkConfigureHooks
  \/ ResetHookingEnvVars
  \/ \E envp \in EnvBlocks : HookedEnvp(envp)
  \/ \E envp \in EnvBlocks : UnhookedEnvp(envp)
  \/ \E envList \in EnvLists : InjectEnvironment(envList)
  \/ EnterHookedChild

SpecEnv == InitEnv /\ [][NextEnv]_vars

\* ------------------------------------------------------------------------
\* SpecPIDList: the three operations of PIDList (lines 85-151) called on
\* two lists, as the unit test at lines 1480-1582 does.  A node is given
\* to append when it is in no list (a new node, a popped or a removed
\* one), or as the head of the other list, which hands over its whole
\* chain (lines 206, 1567); the list that gave its chain away is not used
\* again, and its name then stands for a new, empty list, as the local
\* lists of ZombieWaiter are on every invocation (lines 175-176).
\* remove and pop_front dereference head, so they are called on a
\* non-empty list only (lines 185-199, 753-754).
\* ------------------------------------------------------------------------
OtherList(l) == CHOOSE k \in ListNames : k # l

InList(l) == ChainSet(lists.head[l], lists.next)

Detached == ListNodes \ UNION {InList(l) : l \in ListNames}

Called(op, l, node, ret) ==
  [op |-> op, on |-> l, arg |-> node, ret |-> ret,
   before |-> Chain(lists.head[l], lists.next),
   chain |-> Chain(node, lists.next)]

Popped == IF lists.last.op = "pop_front" THEN lists.last ELSE NoCall

\* lines 89-107
append(l, node) ==
  /\ node = NULL \/ node \in Detached \/ node = lists.head[OtherList(l)]
  /\ LET r == ListAppend(lists.head[l], lists.next, node)
         handedOver == node # NULL /\ node = lists.head[OtherList(l)]
     IN  lists' = [head |-> [k \in ListNames |->
                               IF k = l THEN r.head
                               ELSE IF handedOver THEN NULL ELSE lists.head[k]],
                   next |-> r.nxt,
                   last |-> Called("append", l, node, NULL),
                   popped |-> Popped]
  /\ UNCHANGED <<launcherVars, tok, environ, envMods, eng, one, hook, inst>>

\* lines 109-142
remove(l, node) ==
  /\ node = NULL \/ lists.head[l] # NULL
  /\ LET r == ListRemove(lists.head[l], lists.next, node)
     IN  lists' = [head |-> [lists.head EXCEPT ![l] = r.head],
                   next |-> r.nxt,
                   last |-> Called("remove", l, node, NULL),
                   popped |-> Popped]
  /\ UNCHANGED <<launcherVars, tok, environ, envMods, eng, one, hook, inst>>

\* lines 144-150
pop_front(l) ==
  /\ lists.head[l] # NULL
  /\ LET r == ListPopFront(lists.head[l], lists.next)
     IN  lists' = [head |-> [lists.head EXCEPT ![l] = r.head],
                   next |-> r.nxt,
                   last |-> Called("pop_front", l, NULL, r.ret),
                   popped |-> Popped]
  /\ UNCHANGED <<launcherVars, tok, environ, envMods, eng, one, hook, inst>>

InitPIDList ==
  /\ LauncherInit
  /\ hostDisp = "SIG_DFL"
  /\ PureIdle

NextPIDList ==
  \/ \E l \in ListNames, node \in ListNodes \cup {NULL} : append(l, node)
  \/ \E l \in ListNames, node \in ListNodes \cup {NULL} : remove(l, node)
  \/ \E l \in ListNames : pop_front(l)

SpecPIDList == InitPIDList /\ [][NextPIDList]_vars

\* ------------------------------------------------------------------------
\* SpecUnsupported: the operations this platform does not have (lines
\* 777-787 and 1120-1140), called in any order
\* ------------------------------------------------------------------------
\* an injection that reports the pid it was given as a port
InjectIntoProcess_ReportsPid(pid, waitForExit) ==
  [result |-> "Succeeded", message |-> "", port |-> pid]

\* lines 783-786
InjectIntoProcess(pid, waitForExit) ==
  [result |-> "InjectionFailed",
   message |-> "Injecting into already running processes is not supported on non-Windows systems",
   port |-> 0]

\* lines 1124-1125
StartGlobalHook ==
  [result |-> "InvalidParameter",
   message |-> "Global hooking is not supported on non-Windows systems"]

\* a query that answers from the requests made so far
CanGlobalHook_OnceRequested(requested) == requested

\* lines 1128-1131; the state of the requests is not consulted
CanGlobalHook(requested) == FALSE

IsGlobalHookActive_OnceRequested(requested) == requested

\* lines 1133-1136
IsGlobalHookActive(requested) == FALSE

HookCall(op) == [hook EXCEPT !.op = op, !.prev = hook.op, !.calls = @ + 1,
                             !.pid = 0, !.wait = FALSE, !.result = "none",
                             !.message = "none", !.port = 0, !.answer = FALSE]

CallInjectIntoProcess(pid, waitForExit) ==
  /\ hook.calls < MaxHookCalls
  /\ LET r == InjectIntoProcess(pid, waitForExit)
     IN  hook' = [HookCall("InjectIntoProcess") EXCEPT
                    !.pid = pid, !.wait = waitForExit, !.result = r.result,
                    !.message = r.message, !.port = r.port]
  /\ UNCHANGED <<launcherVars, tok, environ, envMods, eng, one, lists, inst>>

CallStartGlobalHook ==
  /\ hook.calls < MaxHookCalls
  /\ hook' = [HookCall("StartGlobalHook") EXCEPT
                !.result = StartGlobalHook.result,
                !.message = StartGlobalHook.message,
                !.requested = TRUE]
  /\ UNCHANGED <<launcherVars, tok, environ, envMods, eng, one, lists, inst>>

\* lines 1138-1140
CallStopGlobalHook ==
  /\ hook.calls < MaxHookCalls
  /\ hook' = [HookCall("StopGlobalHook") EXCEPT !.requested = FALSE]
  /\ UNCHANGED <<launcherVars, tok, environ, envMods, eng, one, lists, inst>>

CallCanGlobalHook ==
  /\ hook.calls < MaxHookCalls
  /\ hook' = [HookCall("CanGlobalHook") EXCEPT !.answer = CanGlobalHook(hook.requested)]
  /\ UNCHANGED <<launcherVars, tok, environ, envMods, eng, one, lists, inst>>

CallIsGlobalHookActive ==
  /\ hook.calls < MaxHookCalls
  /\ hook' = [HookCall("IsGlobalHookActive") EXCEPT
                !.answer = IsGlobalHookActive(hook.requested)]
  /\ UNCHANGED <<launcherVars, tok, environ, envMods, eng, one, lists, inst>>

InitUnsupported ==
  /\ LauncherInit
  /\ hostDisp = "SIG_DFL"
  /\ PureIdle

NextUnsupported ==
  \/ \E pid \in Pids, waitForExit \in BOOLEAN : CallInjectIntoProcess(pid, waitForExit)
  \/ CallStartGlobalHook
  \/ CallStopGlobalHook
  \/ CallCanGlobalHook
  \/ CallIsGlobalHookActive

SpecUnsupported == InitUnsupported /\ [][NextUnsupported]_vars

\* ------------------------------------------------------------------------
\* SpecInstall: SetupZombieCollectionHandler called from RunProcess on two
\* threads.  The installed flag is tested and set under zombieLock; the
\* sigaction call that installs ZombieWaiter comes after the lock has been
\* released.
\* ------------------------------------------------------------------------
InstRest == <<launcherVars, tok, environ, envMods, eng, one, lists, hook>>

\* line 709 and line 217: RunProcess calls the function, which takes the lock
SZ_Lock(t) ==
  /\ inst.pc[t] = "idle"
  /\ inst.forks[t] < MaxForks
  /\ inst.lock = "free"
  /\ inst' = [inst EXCEPT !.pc[t] = "test", !.lock = t]
  /\ UNCHANGED InstRest

\* lines 219-223: return if the flag is set, set it otherwise
SZ_TestInstalled(t) ==
  /\ inst.pc[t] = "test"
  /\ inst' = IF inst.installed
             THEN [inst EXCEPT !.pc[t] = "return"]
             ELSE [inst EXCEPT !.pc[t] = "install", !.installed = TRUE]
  /\ UNCHANGED InstRest

\* lines 221 and 224: the scoped lock is released on return and at the end
\* of the block
SZ_Unlock(t) ==
  /\ inst.pc[t] \in {"return", "install"}
  /\ inst.lock = t
  /\ inst' = [inst EXCEPT !.lock = "free",
                          !.pc[t] = IF inst.pc[t] = "return" THEN "fork" ELSE "sigaction"]
  /\ UNCHANGED InstRest

\* lines 227-232: install ZombieWaiter and save the previous disposition
SZ_Sigaction(t) ==
  /\ inst.pc[t] = "sigaction"
  /\ inst' = [inst EXCEPT !.pc[t] = "fork", !.action = "ZombieWaiter",
                          !.old_action = inst.action, !.sigactions = @ + 1]
  /\ UNCHANGED InstRest

\* line 711: fork; forkedBare records a fork made while SIGCHLD was not yet
\* handled by ZombieWaiter
RP_ForkOnThread(t) ==
  /\ inst.pc[t] = "fork"
  /\ inst' = [inst EXCEPT !.pc[t] = "idle", !.forks[t] = @ + 1,
                          !.forkedBare = @ \/ inst.action # "ZombieWaiter"]
  /\ UNCHANGED InstRest

InitInstall ==
  /\ LauncherInit
  /\ hostDisp = "SIG_DFL"
  /\ PureIdle

NextInstall ==
  \E t \in InstThreads :
    \/ SZ_Lock(t)
    \/ SZ_TestInstalled(t)
    \/ SZ_Unlock(t)
    \/ SZ_Sigaction(t)
    \/ RP_ForkOnThread(t)

SpecInstall == InitInstall /\ [][NextInstall]_vars

\* ------------------------------------------------------------------------
\* SpecRegister: up to MaxRegistrations launches without output capture of
\* a program that exists, each registering the pid of its child, while the
\* children exit and the handler collects them.
\* ------------------------------------------------------------------------
InitRegister ==
  /\ LauncherInit
  /\ hostDisp = "SIG_DFL"
  /\ PureIdle

NextRegister ==
  \/ LaunchProcessWithin(MaxRegistrations, AppOnPath, CmdOneArg, FALSE)
  \/ RP_Fork
  \/ RP_AfterFork
  \/ RP_TakeNode
  \/ RP_Register
  \/ LP_NoChild
  \/ CallReturn
  \/ \E p \in Pids : ChildExec(p) \/ ChildExit(p)
  \/ Handler

SpecRegister == InitRegister /\ [][NextRegister]_vars

\* ------------------------------------------------------------------------
\* Where the PID records are
\* ------------------------------------------------------------------------
Tracked == ChainSet(children, nxt)
Free == ChainSet(freeChildren, nxt)
LocalDetached == ChainSet(h.localChildren, nxt)
LocalWaited == ChainSet(h.waitedChildren, nxt)
Held == IF call.node = NULL THEN {} ELSE {call.node}
Live == allocated \ released

Places(n) ==
  (IF n \in Tracked THEN 1 ELSE 0) + (IF n \in Free THEN 1 ELSE 0)
  + (IF n \in LocalDetached THEN 1 ELSE 0) + (IF n \in LocalWaited THEN 1 ELSE 0)
  + (IF n \in Held THEN 1 ELSE 0)

HandlerDetached == h.pc = "loop"

C2_RegistrationSurvivesReattach ==
  [][(h.pc = "loop" /\ h'.pc = "idle") =>
       \A n \in ChainSet(children, nxt) :
          n \in ChainSet(children', nxt') /\ npid'[n] = npid[n]]_vars

\* after a handler run the tracked list holds a later child in front of an
\* earlier one: the later one was registered during the run, the earlier one
\* was detached and put back behind it
C2_Witness ==
  /\ h.pc = "idle"
  /\ \E i, j \in 1 .. Len(Chain(children, nxt)) :
       /\ i < j
       /\ npid[Chain(children, nxt)[j]] > 0
       /\ npid[Chain(children, nxt)[i]] > npid[Chain(children, nxt)[j]]

Quiescent ==
  /\ sigPending = 0
  /\ h.pc = "idle"
  /\ call.op = "none"
  /\ \A p \in Pids : procs[p].st \in {"none", "zombie", "reaped"}

C5_OldHandlerOnceBeforeDetach ==
  /\ h.pc = "chain" => h.oldCalls = 0
  /\ h.pc \in {"detach", "loop"} =>
        h.oldCalls = (IF hostDisp = "handler" THEN 1 ELSE 0)
  /\ h.pc \in {"chain", "detach"} =>
        (h.localChildren = NULL /\ h.waitedChildren = NULL /\ h.cur = NULL)

\* a run that has called the host's handler once and then detached a
\* non-empty tracked list
C5_Witness ==
  /\ h.pc = "loop"
  /\ hostDisp = "handler"
  /\ h.oldCalls = 1
  /\ h.localChildren # NULL

\* the launch is given an application that resolves to an executable and a
\* command line the tokenizer accepts
ResolvableLaunch ==
  /\ call.op # "none"
  /\ FileExists(call.app)
  /\ ParseCommandLine(call.app, call.cmd) # <<>>

\* C6: a launch of a resolvable application leaves the calling process
\* running its own program, has forked exactly one child by the time it
\* returns, and returns that child's non-zero pid.
C6_LaunchForksOneChildAndReturns ==
  ResolvableLaunch =>
     /\ image = "self"
     /\ call.pc = "done" => (call.forks = 1 /\ call.pid > 0)

\* the launch is given a non-empty application path that names no executable
UnresolvableLaunch ==
  /\ call.op # "none"
  /\ call.app # <<>>
  /\ ~FileExists(call.app)

FailingLaunch ==
  /\ call.op # "none"
  /\ \/ call.app = <<>>
     \/ ParseCommandLine(call.app, call.cmd) = <<>>
     \/ GetAbsoluteAppPathFromName(call.app) = <<>>

\* C8: when a failing launch returns it has created no child and all four
\* pipe ends it opened for output capture are closed.
C8_FailedLaunchLeavesNothingOpen ==
  (FailingLaunch /\ call.pc = "done") =>
     /\ call.forks = 0
     /\ pfd = {}

\* C9: when an injected launch that created a child returns after a
\* handshake that gave port 0, it reports InjectionFailed with port 0, it has
\* called the resume primitive for the child exactly once and the child is
\* not stopped at its entry point, with and without wait_for_exit.
C9_FailedHandshakeStillResumes ==
  (call.op = "inject" /\ call.pc = "done" /\ call.pid \in Pids /\ call.port = 0) =>
     /\ call.result = "InjectionFailed"
     /\ call.resumes = 1
     /\ procs[call.pid].st # "paused"

\* a launch without wait_for_exit returns InjectionFailed while the child it
\* had stopped at main is running
C9_Witness ==
  /\ call.op = "inject"
  /\ call.pc = "done"
  /\ call.pid \in Pids
  /\ call.port = 0
  /\ ~call.wait
  /\ call.result = "InjectionFailed"
  /\ procs[call.pid].st = "running"

\* C10: when a launch with output capture returns after draining both pipes
\* and collecting its child with waitpid, everything the child wrote has
\* been read, the reported exit code is the code the child exited with if it
\* terminated normally, and the child's pid is returned also when it did not
\* terminate normally.
C10_CaptureReportsExitCode ==
  (call.op = "launch" /\ call.pc = "done" /\ call.capture /\ call.pid \in Pids
     /\ call.waited = call.pid) =>
     /\ pipes.outBuf = 0 /\ pipes.errBuf = 0
     /\ call.status >= 0 => call.retCode = call.status
     /\ call.ret = call.pid

\* a capturing launch returns exit code 2 for a child that exited with 2
C10_Witness ==
  /\ call.op = "launch"
  /\ call.pc = "done"
  /\ call.capture
  /\ call.pid \in Pids
  /\ call.waited = call.pid
  /\ call.status = 2
  /\ call.retCode = 2

\* a capturing launch returns the pid of a child that was killed by a signal
C10_WitnessKilled ==
  /\ call.op = "launch"
  /\ call.pc = "done"
  /\ call.capture
  /\ call.waited = call.pid
  /\ call.status = Killed
  /\ call.ret = call.pid

\* ------------------------------------------------------------------------
\* C11: when execve fails in the forked child, the child's next step ends it
\* with a non-zero exit status, and that step touches neither the PID
\* lists, nor the pipes, nor the launch call of the parent.
\* ------------------------------------------------------------------------
C11_ExecFailureTerminatesChild ==
  [][\A p \in Pids :
       (procs[p].st = "forked" /\ ~procs[p].exists /\ procs'[p] # procs[p])
         => /\ procs'[p].st = "zombie"
            /\ WEXITSTATUS(WaitStatus(procs'[p].status)) # 0
            /\ WIFEXITED(WaitStatus(procs'[p].status))
            /\ reaperVars' = reaperVars
            /\ pipes' = pipes
            /\ call' = call]_vars

C11_Witness ==
  \E p \in Pids : procs[p].st = "zombie" /\ ~procs[p].exists /\ procs[p].status = 1

\* ------------------------------------------------------------------------
\* C20 as stated: for every command name and every command line the
\* result of the tokenizer has at least one element and element 0 is the
\* command name.
\* ------------------------------------------------------------------------
C20_ResultAlwaysStartsWithName ==
  tok.done => (Len(tok.argv) >= 1 /\ tok.argv[1] = tok.name)

\* the tokenizer fails: the input ends inside '...' or "...", or with a
\* backslash as the last character inside "..."
TokenizerFails == tok.done /\ tok.argv = <<>>

RECURSIVE OpenQuoteAtEnd(_, _, _)
OpenQuoteAtEnd(cmd, i, q) ==
  IF i > Len(cmd) THEN q # ""
  ELSE IF q = "" THEN OpenQuoteAtEnd(cmd, i + 1, IF cmd[i] \in {"'", "\""} THEN cmd[i] ELSE "")
  ELSE IF cmd[i] = q THEN OpenQuoteAtEnd(cmd, i + 1, "")
  ELSE IF q = "\"" /\ cmd[i] = "\\" THEN OpenQuoteAtEnd(cmd, i + 2, q)
  ELSE OpenQuoteAtEnd(cmd, i + 1, q)

\* C20 amended: the tokenizer fails, with an empty result, exactly on the
\* command lines that end inside a quote; on every other command line the
\* result has at least one element and element 0 is the command name.
C20_ResultStartsWithNameUnlessMalformed ==
  tok.done =>
    IF OpenQuoteAtEnd(tok.cmd, 1, "")
    THEN tok.argv = <<>>
    ELSE Len(tok.argv) >= 1 /\ tok.argv[1] = tok.name

C20_Witness ==
  /\ tok.done
  /\ tok.cmd = <<"'", "x", "'">>
  /\ tok.name = <<"a">>
  /\ tok.argv = <<tok.name, <<"x">>>>

\* ------------------------------------------------------------------------
\* C14: wherever a modification is applied, Prepend on a non-empty current
\* value gives new value + separator + current value.
\* ------------------------------------------------------------------------
C14_PrependPutsNewValueFirst ==
  (one.done /\ one.m.mod = "Prepend" /\ one.value # <<>>)
    => one.out = (one.m.value \o Separator(one.m.sep)) \o one.value

\* ------------------------------------------------------------------------
\* C16: on an empty current value Append and Prepend give exactly what Set
\* with the same value gives, without any separator, for every separator.
\* ------------------------------------------------------------------------
C16_AppendPrependOnEmptyAreSet ==
  (one.done /\ one.value = <<>> /\ one.m.mod \in {"Append", "Prepend"})
    => /\ one.out = ApplyAt(one.site, [one.m EXCEPT !.mod = "Set"], one.value)
       /\ one.out = one.m.value

C16_Witness ==
  /\ one.done
  /\ one.value = <<>>
  /\ one.m.mod = "Prepend"
  /\ one.m.sep = "SemiColon"
  /\ one.site = "ApplySingleEnvMod"
  /\ one.out = <<"v">>

\* ------------------------------------------------------------------------
\* The modifications of a sequence applied one after the other to a map,
\* each to the value its name has at that point
\* ------------------------------------------------------------------------
RECURSIVE FoldMods(_, _, _)
FoldMods(modifications, i, map) ==
  IF i > Len(modifications) THEN map
  ELSE LET m == modifications[i]
       IN FoldMods(modifications, i + 1,
                   MapPut(map, m.name, ApplySingleEnvMod(m, MapGet(map, m.name))))

\* ------------------------------------------------------------------------
\* C12: the environment given to an injected launch is the environment of
\* the process with the registered modifications applied first, then the
\* caller's envList, then the modifications of the hooked launch, each to
\* the value left by the ones before it.
\* ------------------------------------------------------------------------
C12_InjectedEnvironmentIsLayered ==
  eng.op = "inject"
    => EnvStringToEnvMap(eng.envp)
         = FoldMods((envMods \o eng.extra) \o GetHookingEnvMods(<<>>), 1, eng.before)

\* ------------------------------------------------------------------------
\* C13: after a sequence of modifications has been applied to the
\* environment of the process, every name holds the result of folding all
\* of its modifications, in order, over the value it had before.
\* ------------------------------------------------------------------------
C13_LaterModificationSeesEarlier ==
  eng.op \in {"apply", "prefork"} => environ = FoldMods(eng.applied, 1, eng.before)

\* ------------------------------------------------------------------------
\* C15: Prepend(p) directly followed by Append(a) with the same separator
\* on a name whose value o is not empty leaves p + sep + o + sep + a.
\* ------------------------------------------------------------------------
C15_PrependThenAppend ==
  ( /\ eng.op = "apply"
    /\ Len(eng.applied) = 2
    /\ eng.applied[1].mod = "Prepend"
    /\ eng.applied[2].mod = "Append"
    /\ eng.applied[1].name = eng.applied[2].name
    /\ eng.applied[1].sep = eng.applied[2].sep
    /\ MapGet(eng.before, eng.applied[1].name) # <<>> )
    => LET p == eng.applied[1].value
           a == eng.applied[2].value
           sep == Separator(eng.applied[1].sep)
           o == MapGet(eng.before, eng.applied[1].name)
       IN MapGet(environ, eng.applied[1].name) = (((p \o sep) \o o) \o sep) \o a

\* ------------------------------------------------------------------------
\* C17: register appends one modification to the pending list and changes
\* no variable; apply leaves the pending list empty, leaves every name
\* that no pending modification names as it was, gives a name that one
\* pending modification names the result of that modification, and
\* changes nothing when the pending list is empty.
\* ------------------------------------------------------------------------
C17_PendingListIsAppliedOnce ==
  [][ /\ (eng'.op = "register" /\ eng'.ops # eng.ops)
           => /\ Len(envMods') = Len(envMods) + 1
              /\ SubSeq(envMods', 1, Len(envMods)) = envMods
              /\ environ' = environ
      /\ (eng'.op = "apply" /\ eng'.ops # eng.ops)
           => /\ envMods' = <<>>
              /\ envMods = <<>> => environ' = environ
              /\ \A n \in (DOMAIN environ) \cup (DOMAIN environ') :
                   LET touching == {i \in 1 .. Len(envMods) : envMods[i].name = n}
                   IN /\ touching = {}
                           => (n \in DOMAIN environ /\ n \in DOMAIN environ'
                               /\ environ'[n] = environ[n])
                      /\ Cardinality(touching) = 1
                           => (n \in DOMAIN environ'
                               /\ environ'[n] =
                                    ApplySingleEnvMod(envMods[CHOOSE i \in touching : TRUE],
                                                      MapGet(environ, n))) ]_vars

C17_Witness ==
  /\ eng.op = "apply"
  /\ eng.prev = "apply"
  /\ envMods = <<>>
  /\ eng.applied = <<>>
  /\ environ = eng.before
  /\ MapGet(environ, UserVar) = <<"s">>

\* ------------------------------------------------------------------------
\* C18: after the hooks have been set up from any starting environment and
\* ResetHookingEnvVars has restored from the backup names, the library-path
\* and preload variables have their values from before the hooking and the
\* backup names are gone.
\* ------------------------------------------------------------------------
C18_ResetRestoresPreHookValues ==
  eng.stage = "reset"
    => /\ GetEnvVariable(LIB_PATH_ENV_VAR) = eng.pre.lib
       /\ GetEnvVariable(PRELOAD_ENV_VAR) = eng.pre.preload
       /\ RENDERDOC_ORIGLIBPATH \notin DOMAIN environ
       /\ RENDERDOC_ORIGPRELOAD \notin DOMAIN environ

\* ------------------------------------------------------------------------
\* C19: the unhooked environment has no entry for the remain-hooked marker
\* and exactly one entry name=value for every other name of the input,
\* with the value the input gives it, and ends with the terminator.
\* ------------------------------------------------------------------------
InputNames(block) ==
  {SubSeq(block[i], 1, FirstEquals(block[i], 1) - 1) :
     i \in {j \in 1 .. Len(block) - 1 : FirstEquals(block[j], 1) > 0}}

InputValue(block, name) ==
  LET at == {i \in 1 .. Len(block) - 1 :
               /\ FirstEquals(block[i], 1) > 0
               /\ SubSeq(block[i], 1, FirstEquals(block[i], 1) - 1) = name}
      last == CHOOSE i \in at : \A j \in at : j <= i
  IN SubSeq(block[last], FirstEquals(block[last], 1) + 1, Len(block[last]))

C19_UnhookedDropsOnlyTheMarker ==
  eng.op = "unhooked"
    => LET others == InputNames(eng.block) \ {RENDERDOC_VULKAN_LAYER_VAR}
           n == Len(eng.envp)
       IN /\ n = Cardinality(others) + 1
          /\ eng.envp[n] = EndOfArray
          /\ \A name \in others :
               \E i \in 1 .. n - 1 : eng.envp[i] = Entry(name, InputValue(eng.block, name))

C19_Witness ==
  /\ eng.op = "unhooked"
  /\ \E i \in 1 .. Len(eng.block) : eng.block[i] = Entry(RENDERDOC_VULKAN_LAYER_VAR, <<"1">>)
  /\ \E i \in 1 .. Len(eng.block) : eng.block[i] = Entry(LIB_PATH_ENV_VAR, <<"o">>)
  /\ \E i \in 1 .. Len(eng.block) : eng.block[i] = Entry(UserVar, <<"k">>)
  /\ eng.envp = <<Entry(UserVar, <<"k">>), Entry(LIB_PATH_ENV_VAR, <<"o">>), EndOfArray>>

\* ------------------------------------------------------------------------
\* C21: the tokenizer fails exactly when the command line ends inside an
\* open quote (a backslash that is the last character inside double quotes
\* included), a failure returns no token at all, and every other command
\* line succeeds.
\* ------------------------------------------------------------------------
C21_FailsExactlyInsideOpenQuote ==
  tok.done => ((tok.argv = <<>>) <=> OpenQuoteAtEnd(tok.cmd, 1, ""))

C21_Witness ==
  /\ tok.done
  /\ tok.cmd = <<"x", " ", "'", "x">>
  /\ tok.argv = <<>>

\* ------------------------------------------------------------------------
\* What every character of a command line is: "sep" (white space outside
\* quotes), "quote" (a quote that opens or closes), "esc" (a backslash
\* inside double quotes) or "lit" (a character of a token)
\* ------------------------------------------------------------------------
RECURSIVE Labels(_, _, _)
Labels(cmd, i, q) ==
  IF i > Len(cmd) THEN <<>>
  ELSE LET c == cmd[i] IN
    IF q = ""
    THEN IF c \in {" ", "\t"} THEN <<"sep">> \o Labels(cmd, i + 1, "")
         ELSE IF c \in {"'", "\""} THEN <<"quote">> \o Labels(cmd, i + 1, c)
         ELSE <<"lit">> \o Labels(cmd, i + 1, "")
    ELSE IF c = q THEN <<"quote">> \o Labels(cmd, i + 1, "")
    ELSE IF q = "\"" /\ c = "\\"
    THEN IF i + 1 <= Len(cmd)
         THEN <<"esc", "lit">> \o Labels(cmd, i + 2, q)
         ELSE <<"esc">>
    ELSE <<"lit">> \o Labels(cmd, i + 1, q)

\* the literal characters of positions from .. to
RECURSIVE Literals(_, _, _, _)
Literals(cmd, labels, from, to) ==
  IF from > to THEN <<>>
  ELSE (IF labels[from] = "lit" THEN <<cmd[from]>> ELSE <<>>)
         \o Literals(cmd, labels, from + 1, to)

\* the maximal runs of positions that are not separators, as pairs
RunStarts(labels) ==
  {i \in 1 .. Len(labels) : labels[i] # "sep" /\ (i = 1 \/ labels[i - 1] = "sep")}

RunEnd(labels, start) ==
  CHOOSE j \in start .. Len(labels) :
    /\ \A k \in start .. j : labels[k] # "sep"
    /\ (j = Len(labels) \/ labels[j + 1] = "sep")

NthStart(starts, n) == CHOOSE s \in starts : Cardinality({t \in starts : t < s}) = n - 1

\* ------------------------------------------------------------------------
\* C22: every maximal run of quoted and unquoted segments that no unquoted
\* white space separates gives exactly one token, the segments' contents
\* in order, also when a run of quote pairs has no content at all.
\* ------------------------------------------------------------------------
C22_OneTokenPerRun ==
  (tok.done /\ ~OpenQuoteAtEnd(tok.cmd, 1, ""))
    => LET labels == Labels(tok.cmd, 1, "")
           starts == RunStarts(labels)
       IN /\ Len(tok.argv) = Cardinality(starts) + 1
          /\ \A n \in 1 .. Cardinality(starts) :
               tok.argv[n + 1] =
                 Literals(tok.cmd, labels, NthStart(starts, n),
                          RunEnd(labels, NthStart(starts, n)))

C22_Witness ==
  /\ tok.done
  /\ tok.cmd = <<"'", "x", "'", "x">>
  /\ tok.argv = <<tok.name, <<"x", "x">>>>

\* ------------------------------------------------------------------------
\* C23: a command line '...' whose inside has no single quote gives one
\* token, the inside unchanged, whatever backslashes, double quotes,
\* spaces and tabs it holds.
\* ------------------------------------------------------------------------
C23_SingleQuotesCopyLiterally ==
  ( /\ tok.done
    /\ Len(tok.cmd) >= 2
    /\ tok.cmd[1] = "'"
    /\ tok.cmd[Len(tok.cmd)] = "'"
    /\ \A i \in 2 .. Len(tok.cmd) - 1 : tok.cmd[i] # "'" )
    => tok.argv = <<tok.name, SubSeq(tok.cmd, 2, Len(tok.cmd) - 1)>>

C23_Witness ==
  /\ tok.done
  /\ tok.cmd = <<"'", "\\", "\"", "'">>
  /\ tok.argv = <<tok.name, <<"\\", "\"">>>>

\* ------------------------------------------------------------------------
\* C24: a command line "..." whose inside has every double quote escaped
\* and no backslash as its last character gives one token: the inside
\* with every escaping backslash dropped and the character after it, and
\* every other character, unchanged.
\* ------------------------------------------------------------------------
RECURSIVE EscapesClosed(_, _)
EscapesClosed(w, i) ==
  IF i > Len(w) THEN TRUE
  ELSE IF w[i] = "\"" THEN FALSE
  ELSE IF w[i] = "\\" THEN i + 1 <= Len(w) /\ EscapesClosed(w, i + 2)
  ELSE EscapesClosed(w, i + 1)

RECURSIVE Unescaped(_, _)
Unescaped(w, i) ==
  IF i > Len(w) THEN <<>>
  ELSE IF w[i] = "\\" THEN <<w[i + 1]>> \o Unescaped(w, i + 2)
  ELSE <<w[i]>> \o Unescaped(w, i + 1)

C24_DoubleQuotesUnescape ==
  ( /\ tok.done
    /\ Len(tok.cmd) >= 2
    /\ tok.cmd[1] = "\""
    /\ tok.cmd[Len(tok.cmd)] = "\""
    /\ EscapesClosed(SubSeq(tok.cmd, 2, Len(tok.cmd) - 1), 1) )
    => tok.argv = <<tok.name, Unescaped(SubSeq(tok.cmd, 2, Len(tok.cmd) - 1), 1)>>

C24_Witness ==
  /\ tok.done
  /\ tok.cmd = <<"\"", "\\", "\"", "\"">>
  /\ tok.argv = <<tok.name, <<"\"">>>>

\* ------------------------------------------------------------------------
\* C25: on a command line without quotes the tokens after the name are the
\* maximal runs of characters other than space and tab, in input order;
\* an empty or all-white command line gives the name alone.
\* ------------------------------------------------------------------------
White(c) == c = " " \/ c = "\t"

WordStarts(cmd) ==
  {i \in 1 .. Len(cmd) : ~White(cmd[i]) /\ (i = 1 \/ White(cmd[i - 1]))}

WordEnd(cmd, start) ==
  CHOOSE j \in start .. Len(cmd) :
    /\ \A k \in start .. j : ~White(cmd[k])
    /\ (j = Len(cmd) \/ White(cmd[j + 1]))

C25_WhitespaceOnlySeparates ==
  (tok.done /\ \A i \in 1 .. Len(tok.cmd) : tok.cmd[i] \notin {"'", "\""})
    => LET starts == WordStarts(tok.cmd)
       IN /\ Len(tok.argv) = Cardinality(starts) + 1
          /\ tok.argv[1] = tok.name
          /\ \A n \in 1 .. Cardinality(starts) :
               tok.argv[n + 1] =
                 SubSeq(tok.cmd, NthStart(starts, n), WordEnd(tok.cmd, NthStart(starts, n)))
          /\ (\A i \in 1 .. Len(tok.cmd) : White(tok.cmd[i])) => tok.argv = <<tok.name>>

C25_Witness ==
  /\ tok.done
  /\ tok.cmd = <<" ", "x", "\t", "x">>
  /\ tok.argv = <<tok.name, <<"x">>, <<"x">>>>

\* ------------------------------------------------------------------------
\* The list of a name as a sequence, and a sequence without one node
\* ------------------------------------------------------------------------
ListOf(l) == Chain(lists.head[l], lists.next)

Without(seq, node) == SelectSeq(seq, LAMBDA n : n # node)

Members(seq) == {seq[i] : i \in 1 .. Len(seq)}

\* the chain from head ends at NULL and passes no node twice
NoNodeTwice(head, nx) ==
  LET c == Chain(head, nx) IN
    /\ \A i, j \in 1 .. Len(c) : c[i] = c[j] => i = j
    /\ c # <<>> => nx[c[Len(c)]] = NULL

C27_RemoveKeepsOrder ==
  ( /\ lists.last.op = "remove"
    /\ lists.last.arg \in Members(lists.last.before)
    /\ lists.last.arg # Head(lists.last.before) )
    => /\ lists.head[lists.last.on] = Head(lists.last.before)
       /\ ListOf(lists.last.on) = Without(lists.last.before, lists.last.arg)
       /\ Len(ListOf(lists.last.on)) = Len(lists.last.before) - 1

C27_Witness ==
  /\ lists.last.op = "remove"
  /\ Len(lists.last.before) = 3
  /\ lists.last.arg = lists.last.before[2]
  /\ ListOf(lists.last.on) = <<lists.last.before[1], lists.last.before[3]>>

\* ------------------------------------------------------------------------
\* C28: pop_front on a non-empty list returns the head and leaves the
\* list without it, the former second node as the head; an append of the
\* popped node directly after it leaves the rest of the list in its order
\* with the popped node as the tail.
\* ------------------------------------------------------------------------
C28_PopFrontThenAppend ==
  /\ lists.last.op = "pop_front"
       => /\ lists.last.ret = Head(lists.last.before)
          /\ ListOf(lists.last.on) = Tail(lists.last.before)
          /\ lists.head[lists.last.on] =
               (IF Len(lists.last.before) >= 2 THEN lists.last.before[2] ELSE NULL)
  /\ ( /\ lists.last.op = "append"
       /\ lists.popped.op = "pop_front"
       /\ lists.popped.on = lists.last.on
       /\ lists.last.arg = lists.popped.ret )
       => ListOf(lists.last.on) = Append(Tail(lists.popped.before), lists.popped.ret)

C28_Witness ==
  /\ lists.last.op = "append"
  /\ lists.popped.op = "pop_front"
  /\ lists.popped.on = lists.last.on
  /\ lists.last.arg = lists.popped.ret
  /\ Len(lists.popped.before) = 3
  /\ ListOf(lists.last.on) =
       <<lists.popped.before[2], lists.popped.before[3], lists.popped.before[1]>>

\* ------------------------------------------------------------------------
\* C29: append given the head of the other list leaves the receiving
\* list as it was, followed by the whole chain of the other list in its
\* order; on an empty receiving list the chain becomes the list, and
\* append of NULL leaves the list as it was.
\* ------------------------------------------------------------------------
C29_AppendSplicesChain ==
  lists.last.op = "append"
    => /\ ListOf(lists.last.on) = lists.last.before \o lists.last.chain
       /\ lists.last.before = <<>> => lists.head[lists.last.on] = lists.last.arg
       /\ lists.last.arg = NULL
            => /\ ListOf(lists.last.on) = lists.last.before
               /\ lists.last.chain = <<>>

C29_Witness ==
  /\ lists.last.op = "append"
  /\ Len(lists.last.before) = 2
  /\ Len(lists.last.chain) = 2
  /\ ListOf(lists.last.on) = lists.last.before \o lists.last.chain

\* ------------------------------------------------------------------------
\* C30: a step that releases records releases the records of the free
\* list, all of them and no other; it leaves the head, the links and the
\* pids of the tracked list as they were, releases no tracked record, and
\* collects the exit status of no child.
\* ------------------------------------------------------------------------
C30_TeardownReleasesFreeListOnly ==
  [][released' # released =>
       /\ released' = released \cup Free
       /\ (released' \ released) \cap Tracked = {}
       /\ children' = children
       /\ Chain(children', nxt') = Chain(children, nxt)
       /\ \A n \in Tracked : npid'[n] = npid[n]
       /\ freeChildren' = freeChildren
       /\ procs' = procs
       /\ h' = h]_vars

\* teardown has released the free list while a child that has not been
\* collected is still tracked
C30_Witness ==
  /\ released # {}
  /\ released = Free
  /\ \E n \in Tracked :
       /\ n \notin released
       /\ npid[n] \in Pids
       /\ procs[npid[n]].st \in {"running", "zombie"}

C31_WitnessInject ==
  /\ hook.op = "InjectIntoProcess"
  /\ hook.pid = 2
  /\ hook.wait
  /\ hook.port = 0

\* ------------------------------------------------------------------------
\* C32: a handler run never has to take the lock while the thread it
\* interrupted holds it; in such a state the handler spins at line 178 or
\* 206 and the interrupted thread cannot run to release the lock, so the
\* handler run does not complete.
\* ------------------------------------------------------------------------
HandlerWantsLock == h.pc = "detach" \/ (h.pc = "loop" /\ h.cur = NULL)

WaitStepTaken == h.pc = "loop" /\ h.cur # NULL /\ h' # h

HandlerReturns == h.pc = "loop" /\ h.cur = NULL /\ h'.pc = "idle"

C33_WaitedToFreeOthersToTracked ==
  [][/\ WaitStepTaken =>
          IF procs' # procs
          THEN /\ h.cur \in ChainSet(h'.waitedChildren, nxt')
               /\ h.cur \notin ChainSet(h'.localChildren, nxt')
          ELSE /\ h.cur \in ChainSet(h'.localChildren, nxt')
               /\ h.cur \notin ChainSet(h'.waitedChildren, nxt')
     /\ HandlerReturns =>
          /\ LocalWaited \subseteq ChainSet(freeChildren', nxt')
          /\ LocalWaited \cap ChainSet(children', nxt') = {}
          /\ LocalDetached \subseteq ChainSet(children', nxt')
          /\ LocalDetached \cap ChainSet(freeChildren', nxt') = {}]_vars

\* a run has returned one record to the tracked list, whose child is still
\* running, and given another to the free list
C33_Witness ==
  /\ h.pc = "idle"
  /\ \E n \in Free : npid[n] \in Pids /\ procs[npid[n]].by = "reaper"
  /\ \E n \in Tracked : npid[n] \in Pids /\ procs[npid[n]].st = "running"

\* ------------------------------------------------------------------------
\* C34: in an injected launch that created a child, the first call of the
\* child is the pause primitive; from the return of StopChildAtMain until
\* the resume the child is stopped at its entry point or has terminated;
\* the port is probed once, before the resume; the child is resumed once,
\* after the probe and before the blocking wait, and never a second time.
\* ------------------------------------------------------------------------
InjectedChild == call.op = "inject" /\ call.pid \in Pids

C34_PauseProbeResumeWait ==
  /\ [](\A p \in Pids :
          (procs[p].kind = "inject" /\ procs[p].steps # <<>>)
            => procs[p].steps[1] = "StopAtMainInChild")
  /\ []((InjectedChild /\ call.pc \in {"locked", "taken", "after", "resume"})
          => /\ procs[call.pid].st \in {"paused", "zombie", "reaped"}
             /\ call.resumes = 0
             /\ call.waited = 0)
  /\ []((InjectedChild /\ call.pc \in {"locked", "taken", "after"}) => call.probes = 0)
  /\ []((InjectedChild /\ call.pc \in {"resume", "iwait", "done"}) => call.probes = 1)
  /\ []((InjectedChild /\ call.pc \in {"iwait", "done"}) => call.resumes = 1)
  /\ []((InjectedChild /\ call.pc = "iwait") => call.waited = 0)
  /\ [][(InjectedChild /\ call'.resumes > call.resumes)
          => /\ call.probes = 1
             /\ call.resumes = 0
             /\ call.waited = 0
             /\ procs[call.pid].st = "paused" => procs'[call.pid].st = "running"]_vars

\* the coordinator has probed, resumed the child once and is blocked in
\* waitpid while the child runs
C34_Witness ==
  /\ InjectedChild
  /\ call.pc = "iwait"
  /\ call.probes = 1
  /\ call.resumes = 1
  /\ procs[call.pid].st = "running"
  /\ procs[call.pid].steps[1] = "StopAtMainInChild"

BlockedOnStderr(p) ==
  /\ procs[p].st = "running"
  /\ procs[p].kind = "capture"
  /\ pipes.wOut = 0
  /\ pipes.wErr > 0
  /\ pipes.errBuf = PipeCap

WaitingForStdout ==
  /\ call.op = "launch"
  /\ call.pc = "after"
  /\ call.capture
  /\ call.pid \in Pids
  /\ pipes.outBuf = 0
  /\ ~EndOfFile("out1")

InstalledAtMostOnce ==
  /\ inst.sigactions <= 1
  /\ inst.old_action # "ZombieWaiter"
  /\ inst.sigactions = 1 => inst.old_action = "host"

\* ------------------------------------------------------------------------
\* C38: every step that changes the head of the tracked or of the free
\* list, or that modifies or releases a node linked into one of them, is a
\* step of a section that holds zombieLock: the registration of a launch
\* or one of the two locked sections of the handler.
\* ------------------------------------------------------------------------
TouchesSharedLists ==
  \/ children' # children
  \/ freeChildren' # freeChildren
  \/ \E n \in Tracked \cup Free :
       \/ nxt'[n] # nxt[n]
       \/ npid'[n] # npid[n]
       \/ n \in released' \ released

HandlerLockedSection ==
  \/ h.pc = "detach" /\ h'.pc = "loop"
  \/ h.pc = "loop" /\ h.cur = NULL /\ h'.pc = "idle"

UnderZombieLock == zombieLock # "free" \/ HandlerLockedSection

C38_LaunchAndHandlerUnderLock ==
  [][(TouchesSharedLists /\ released' = released) => UnderZombieLock]_vars

\* ------------------------------------------------------------------------
\* C39, as stated: once the handler has released a record to the free
\* list, every later registration takes its record from the free list and
\* allocates nothing.
\* ------------------------------------------------------------------------
TakesRecord == call.pc = "locked" /\ call'.pc = "taken"

ReusesReleased == Held \cap released # {}
====
